---- MODULE Spec2Model ----
(***************************************************************************)
(* State-machine model of the credential vault runtime of                  *)
(* keepass-mcp-server: the Security Manager (security.py), the Store       *)
(* Handler (keepass_handler.py) and the Backup Manager                     *)
(* (backup_manager.py).                                                    *)
(*                                                                         *)
(* Three specifications share the variables:                               *)
(*   SpecSec   - the operations of SecurityManager / SecureSession         *)
(*   SpecStore - the operations of KeePassHandler                          *)
(*   SpecBak   - the operations of BackupManager                           *)
(***************************************************************************)
EXTENDS Integers, Sequences, FiniteSets, TLC

(***************************************************************************)
(* Bounds of the model.                                                    *)
(***************************************************************************)
\* the Security Manager's clock runs from 0 to MaxTime
MaxTime == 2
\* number of session tokens secrets.token_urlsafe hands out in one run
MaxTokens == 1
\* cap on a session's access_count
MaxAccess == 1
\* the Backup Manager's and the Store Handler's clock runs from 0 to MaxInstant
MaxInstant == 3

(***************************************************************************)
(* Program constants and configuration.  Durations are in clock ticks: the *)
(* configuration chooses them, the model takes small ones.                 *)
(***************************************************************************)
\* config.session_timeout
session_timeout == 1
\* config.auto_lock_timeout
auto_lock_timeout == 1
\* config.max_retries
max_attempts == 2
\* config.backup_count (BackupManager.max_backups)
max_backups == 2
\* file timestamps are counted in stamps, two to a clock tick (see
\* first_stamp); StampsPerSecond is the number of stamps in one second of the
\* "%Y%m%d_%H%M%S" timestamp of a backup name
StampsPerSecond == 4
\* SecurityManager.attempt_window (300 s in the source), in clock ticks
attempt_window == 2
\* authenticate_user rejects passwords shorter than this
MinPasswordLength == 8

Users == {"alice", "bob"}
Tokens == 1..MaxTokens
\* lengths of the passwords a caller presents
PasswordLengths == {7, 8}
\* the (user_id, password length) pairs callers present: one user who
\* presents short and long passwords, and one who only ever fails
Logins == {l \in Users \X PasswordLengths : l[1] = "bob" => l[2] < MinPasswordLength}
\* keys and values kept in SecureMemory
Keys == {"master"}
Secrets == {"s1"}

VARIABLES
    now,            \* time.time()
    \* ---- SecurityManager ----
    sessions,       \* SecureSession.sessions: token -> session data
    next_token,     \* the next token secrets.token_urlsafe returns
    auth_attempts,  \* SecurityManager.auth_attempts: user -> list of timestamps
    is_locked,      \* SecurityManager.is_locked
    last_activity,  \* SecurityManager.last_activity
    sensitive_data, \* SecureMemory.sensitive_data: key -> bytes
    sec_last,       \* the last SecurityManager call and its outcome
    fail_log,       \* history: per user, the times of the calls that failed
                    \* on the credential since the user's last success
    \* ---- files ----
    db_file,        \* the live store file at config.keepass_db_path
    backups,        \* the backup blobs in backup_dir: name -> file
    sidecars,       \* the .meta sidecars in backup_dir: name -> metadata
    bak_last,       \* the last BackupManager call and its outcome
    \* ---- KeePassHandler ----
    database,       \* the open store (the PyKeePass handle), or none
    handler_is_locked,  \* KeePassHandler.is_locked
    last_save_time, \* KeePassHandler.last_save_time
    auto_save_enabled,  \* config.auto_save
    db_last,        \* the last KeePassHandler call and its outcome
    \* ---- threads calling one KeePassHandler ----
    handler_lock,   \* KeePassHandler.lock, the threading.RLock
    handler_thread, \* per thread: the handler call it is in and where
    \* ---- threads calling one SecurityManager ----
    login_thread,   \* per thread: where it is in authenticate_user
    \* ---- KeePassMCPServer ----
    current_session,    \* KeePassMCPServer.current_session (0 for None)
    access_mode,    \* config.access_mode
    tool_last,      \* the last tool call and its outcome
    \* ---- SearchEngine ----
    search_history, \* SearchEngine.search_history
    search_last,    \* the last SearchEngine call, its input, its result and
                    \* the number of history records it discarded
    \* ---- GroupManager ----
    group_tree,     \* the groups of the store's database: each group's
                    \* .parent ("none" for the root group) and .name
    group_last      \* the last GroupManager call and its outcome

secVars == <<sessions, next_token, auth_attempts, is_locked, last_activity,
             sensitive_data, sec_last, fail_log>>

fileVars == <<db_file, backups, sidecars, bak_last>>

storeVars == <<database, handler_is_locked, last_save_time,
               auto_save_enabled, db_last>>

threadVars == <<handler_lock, handler_thread, login_thread>>

serverVars == <<current_session, access_mode, tool_last>>

searchVars == <<search_history, search_last>>

groupVars == <<group_tree, group_last>>

extVars == <<threadVars, serverVars, searchVars, groupVars>>

vars == <<now, secVars, fileVars, storeVars, extVars>>

notSecVars == <<fileVars, storeVars, extVars>>
notFileVars == <<secVars, storeVars, extVars>>

(***************************************************************************)
(* SecureSession                                                           *)
(***************************************************************************)
\* SecureSession.create_session
create_session(S, tok, user_id, t) ==
    S @@ (tok :> [user_id |-> user_id, created_at |-> t,
                  last_access |-> t, access_count |-> 0])

\* the expiry test of SecureSession.validate_session
session_expired(s, t) == t - s.last_access > session_timeout

\* session_validate with the expired session left in the registry
session_validate_keeps_expired(S, tok, t) ==
    IF tok \notin DOMAIN S
    THEN [result |-> "false", sessions |-> S]
    ELSE IF session_expired(S[tok], t)
         THEN [result |-> "SessionExpiredError", sessions |-> S]
         ELSE [result |-> "true",
               sessions |-> [S EXCEPT ![tok].last_access = t,
                                      ![tok].access_count = @ + 1]]

\* SecureSession.validate_session: the value returned (or exception raised)
\* and the registry afterwards
session_validate(S, tok, t) ==
    IF tok \notin DOMAIN S
    THEN [result |-> "false", sessions |-> S]
    ELSE IF session_expired(S[tok], t)
         THEN [result |-> "SessionExpiredError",
               sessions |-> [x \in DOMAIN S \ {tok} |-> S[x]]]
         ELSE [result |-> "true",
               sessions |-> [S EXCEPT ![tok].last_access = t,
                                      ![tok].access_count = @ + 1]]

\* destroy_session that leaves the session in the registry
destroy_session_skipped(S, tok) == S

\* SecureSession.destroy_session
destroy_session(S, tok) ==
    IF tok \in DOMAIN S THEN [x \in DOMAIN S \ {tok} |-> S[x]] ELSE S

(***************************************************************************)
(* SecureMemory                                                            *)
(***************************************************************************)
\* SecureMemory.clear_all: every key is deleted
clear_all(M) == <<>>

(***************************************************************************)
(* SecurityManager: rate limiter                                           *)
(***************************************************************************)
\* the list comprehension of _check_rate_limit
prune_attempts(list, t) ==
    SelectSeq(list, LAMBDA attempt : t - attempt < attempt_window)

\* check_rate_limit admitting one attempt too many
check_rate_limit_off_by_one(A, user_id, t) ==
    IF user_id \notin DOMAIN A
    THEN [ok |-> TRUE, attempts |-> A]
    ELSE LET pruned == prune_attempts(A[user_id], t)
         IN  [ok |-> Len(pruned) <= max_attempts,
              attempts |-> [A EXCEPT ![user_id] = pruned]]

\* SecurityManager._check_rate_limit: admission and the pruned attempt map
check_rate_limit(A, user_id, t) ==
    IF user_id \notin DOMAIN A
    THEN [ok |-> TRUE, attempts |-> A]
    ELSE LET pruned == prune_attempts(A[user_id], t)
         IN  [ok |-> Len(pruned) < max_attempts,
              attempts |-> [A EXCEPT ![user_id] = pruned]]

\* SecurityManager._record_auth_attempt
record_auth_attempt(A, user_id, t) ==
    IF user_id \notin DOMAIN A
    THEN A @@ (user_id :> <<t>>)
    ELSE [A EXCEPT ![user_id] = Append(@, t)]

\* a successful authentication that leaves the user's attempts recorded
reset_rate_limit_skipped(A, user_id) == A

\* del self.auth_attempts[user_id] after a successful authentication
reset_rate_limit(A, user_id) == [u \in DOMAIN A \ {user_id} |-> A[u]]

\* authenticate_user that records the attempt before it tests the limit
authenticate_user_records_rejected(A, S, tok, user_id, pwlen, t) ==
    LET rl == check_rate_limit(A, user_id, t)
        rec == record_auth_attempt(rl.attempts, user_id, t)
    IN  IF ~rl.ok
        THEN [result |-> "rate_limited", attempts |-> rec,
              sessions |-> S, token |-> 0]
        ELSE IF pwlen < MinPasswordLength
        THEN [result |-> "auth_failed", attempts |-> rec,
              sessions |-> S, token |-> 0]
        ELSE [result |-> "ok",
              attempts |-> reset_rate_limit(rec, user_id),
              sessions |-> create_session(S, tok, user_id, t),
              token |-> tok]

\* SecurityManager.authenticate_user: outcome, attempt map and registry
authenticate_user(A, S, tok, user_id, pwlen, t) ==
    LET rl == check_rate_limit(A, user_id, t) IN
    IF ~rl.ok
    THEN [result |-> "rate_limited", attempts |-> rl.attempts,
          sessions |-> S, token |-> 0]
    ELSE LET rec == record_auth_attempt(rl.attempts, user_id, t) IN
         IF pwlen < MinPasswordLength
         THEN [result |-> "auth_failed", attempts |-> rec,
               sessions |-> S, token |-> 0]
         ELSE [result |-> "ok",
               attempts |-> reset_rate_limit(rec, user_id),
               sessions |-> create_session(S, tok, user_id, t),
               token |-> tok]


(***************************************************************************)
(* Files: the live store file and the backup directory                     *)
(***************************************************************************)
\* the content of a store: one entry slot (the group the entry is in and its
\* title) and one group slot (the parent of group "g1" and its name); "none"
\* is an absent entry or group, "bin" the recycle bin group
EmptyTree == [entry |-> "none", title |-> "a", group |-> "none", gname |-> "a"]

\* PyKeePass.save: the bytes of a KDBX file holding the tree
kdbx_save(tree) == [bytes |-> "kdbx", tree |-> tree]

\* what a write that failed midway, or a corrupted copy, leaves
Partial == [bytes |-> "partial", tree |-> EmptyTree]
\* a file of size zero
EmptyData == [bytes |-> "empty", tree |-> EmptyTree]

\* contents the store file is given from outside the program
Contents ==
    {kdbx_save(EmptyTree), kdbx_save([EmptyTree EXCEPT !.entry = "root"])}

\* time.time() / st_mtime of the writes of a call made at clock tick n: a
\* call writes at most twice, the second write after the first
first_stamp(n) == 2 * n + 1
second_stamp(n) == 2 * n + 2

NoFile == [exists |-> FALSE, data |-> EmptyData, mtime |-> 0]

\* a backup name "<db>_<timestamp>_<reason>.kdbx[.gz]"
backup_filename(t, reason, compress) ==
    [second |-> t \div StampsPerSecond, reason |-> reason, gz |-> compress]

NoName == [second |-> 0, reason |-> "", gz |-> FALSE]
NoChecksum == <<"none", "">>

\* BackupManager._calculate_checksum / hashlib.sha256(data).hexdigest()
Checksum(data) == <<"sha256", data>>

\* gzip.open(backup_path, "wb") in _create_compressed_backup: the gzip member
\* carries the time of compression in its header, then the compressed data
gzip_compress(data, t) ==
    [gz |-> TRUE, hdr |-> t, data |-> data, intact |-> TRUE]

\* shutil.copy2: a byte-identical copy
raw_copy(data) == [gz |-> FALSE, hdr |-> 0, data |-> data, intact |-> TRUE]

\* gzip.open(backup_path, "rb").read() returns the data (does not raise)
gzip_readable(art) == art.gz /\ art.intact

\* _verify_backup with the checksum comparison of compressed backups left out
verify_artifact_gz_unchecked(art, expected_checksum, is_compressed) ==
    IF is_compressed
    THEN gzip_readable(art)
    ELSE IF expected_checksum # NoChecksum
         THEN Checksum(art.data) = expected_checksum
         ELSE art.data # EmptyData

\* BackupManager._verify_backup
verify_artifact(art, expected_checksum, is_compressed) ==
    IF is_compressed
    THEN IF ~gzip_readable(art) THEN FALSE
         ELSE IF expected_checksum # NoChecksum
              THEN Checksum(art.data) = expected_checksum
              ELSE TRUE
    ELSE IF expected_checksum # NoChecksum
         THEN Checksum(art.data) = expected_checksum
         ELSE art.data # EmptyData

put(F, k, v) == [x \in DOMAIN F \cup {k} |-> IF x = k THEN v ELSE F[x]]
remove_all(F, D) == [x \in DOMAIN F \ D |-> F[x]]

\* BackupManager._load_backup_metadata(...).get("checksum")
expected_checksum_of(M, fn) ==
    IF fn \in DOMAIN M THEN M[fn].checksum ELSE NoChecksum

\* BackupManager.cleanup_old_backups: list_backups(include_metadata=False,
\* sort_by="date") sorts by st_mtime, newest first (files of equal mtime in
\* directory order), and backups[max_backups:] are deleted
cleanup_choices(B) ==
    IF Cardinality(DOMAIN B) <= max_backups
    THEN {{}}
    ELSE {D \in SUBSET DOMAIN B :
            /\ Cardinality(D) = Cardinality(DOMAIN B) - max_backups
            /\ \A d \in D, k \in DOMAIN B \ D : B[d].mtime <= B[k].mtime}

\* a failed verification that leaves the artifact in the backup directory
unlink_failed_backup_skipped(B, fn) == B

\* backup_path.unlink() after a failed verification in create_backup
unlink_failed_backup(B, fn) == remove_all(B, {fn})

\* BackupManager.create_backup: the possible outcomes.  fault is what goes
\* wrong in the call: "corrupt" (the artifact written differs from the source
\* that was checksummed), "meta" (_save_backup_metadata fails and is logged)
create_backup(db, B, M, t, reason, compress, verify, fault) ==
    IF ~db.exists
    THEN {[result |-> "BackupError", backups |-> B, sidecars |-> M,
           filename |-> NoName]}
    ELSE LET fn == backup_filename(t, reason, compress)
             original_checksum == Checksum(db.data)
             written == IF fault = "corrupt" THEN Partial ELSE db.data
             art == IF compress THEN gzip_compress(written, t)
                    ELSE raw_copy(written)
             file == [art |-> art,
                      mtime |-> IF compress THEN t ELSE db.mtime,
                      born |-> t,
                      orig |-> art]
             B1 == put(B, fn, file)
         IN  IF verify /\ ~verify_artifact(art, original_checksum, compress)
             THEN {[result |-> "BackupError",
                    backups |-> unlink_failed_backup(B1, fn),
                    sidecars |-> M, filename |-> fn]}
             ELSE LET metadata == [checksum |-> original_checksum,
                                   created_at |-> t, reason |-> reason,
                                   compressed |-> compress,
                                   verified |-> verify]
                      M1 == IF fault = "meta" THEN M
                            ELSE put(M, fn, metadata)
                  IN  {[result |-> "ok",
                        backups |-> remove_all(B1, D),
                        sidecars |-> remove_all(M1, D),
                        filename |-> fn] : D \in cleanup_choices(B1)}

\* the restore step of restore_backup (the inner try block): db is the live
\* store before it, B the backup directory after the pre-restore backup
restore_step(db, B, t, fn, checked, expected_checksum, fault) ==
    LET rollback(written) == IF db.exists THEN db ELSE written
        partial == [exists |-> TRUE, data |-> Partial, mtime |-> t]
    IN  IF fn \notin DOMAIN B
        THEN [result |-> "BackupError", db |-> db]
        ELSE IF fault = "write" \/ (fn.gz /\ ~gzip_readable(B[fn].art))
        THEN [result |-> "BackupError", db |-> rollback(partial)]
        ELSE LET restored ==
                   IF fn.gz
                   THEN [exists |-> TRUE, data |-> B[fn].art.data, mtime |-> t]
                   ELSE [exists |-> TRUE, data |-> B[fn].art.data,
                         mtime |-> B[fn].mtime]
             IN  IF checked /\ expected_checksum # NoChecksum
                    /\ Checksum(restored.data) # expected_checksum
                 THEN [result |-> "BackupError", db |-> rollback(restored)]
                 ELSE [result |-> "ok", db |-> restored]

\* BackupManager.restore_backup: the possible outcomes.  fault: "pre_backup"
\* (the pre-restore backup fails its verification), "write" (the copy or
\* decompression onto the live store fails midway)
restore_backup(db, B, M, t, fn, verify_before_restore, create_pre_restore_backup, fault) ==
    LET unchanged == [result |-> "BackupError", db |-> db,
                      backups |-> B, sidecars |-> M]
        expected_checksum == expected_checksum_of(M, fn)
    IN  IF fn \notin DOMAIN B THEN {unchanged}
        ELSE IF verify_before_restore
                /\ ~verify_artifact(B[fn].art, expected_checksum, fn.gz)
        THEN {unchanged}
        ELSE LET pres ==
                   IF create_pre_restore_backup /\ db.exists
                   THEN create_backup(db, B, M, t, "pre_restore", TRUE, TRUE,
                                      IF fault = "pre_backup" THEN "corrupt"
                                      ELSE "none")
                   ELSE {[result |-> "ok", backups |-> B, sidecars |-> M,
                          filename |-> NoName]}
             IN  {IF o.result # "ok"
                  THEN [result |-> "BackupError", db |-> db,
                        backups |-> o.backups, sidecars |-> o.sidecars]
                  ELSE LET r == restore_step(db, o.backups, t + 1, fn,
                                             verify_before_restore
                                               /\ fn \in DOMAIN M,
                                             expected_checksum, fault)
                       IN  [result |-> r.result, db |-> r.db,
                            backups |-> o.backups, sidecars |-> o.sidecars]
                  : o \in pres}

\* BackupManager.verify_backup(...)["is_valid"]
verify_backup(B, M, fn) ==
    IF fn \notin DOMAIN B THEN "BackupError"
    ELSE IF verify_artifact(B[fn].art, expected_checksum_of(M, fn), fn.gz)
         THEN "valid" ELSE "invalid"

NoBakCall == [op |-> "none", result |-> "", fn |-> NoName, verify |-> FALSE,
              fault |-> "none"]

InitFiles ==
    /\ db_file = [exists |-> TRUE, data |-> kdbx_save(EmptyTree), mtime |-> 0]
    /\ backups = <<>>
    /\ sidecars = <<>>
    /\ bak_last = NoBakCall

(***************************************************************************)
(* KeePassHandler: the store and the codec operations it calls             *)
(***************************************************************************)
NoDatabase == [loaded |-> FALSE, tree |-> EmptyTree]
NoTime == -1
Titles == {"a", "b"}
EntryGroups == {"root", "g1", "bin"}
ParentGroups == {"root", "bin"}

group_exists(tree, g) == g # "g1" \/ tree.group # "none"

\* PyKeePass.add_entry(destination_group=group, ...)
add_entry(tree, group) ==
    IF tree.entry = "none" /\ group_exists(tree, group)
    THEN [ok |-> TRUE, tree |-> [tree EXCEPT !.entry = group]]
    ELSE [ok |-> FALSE, tree |-> tree]

\* entry.title = update_data["title"]
set_entry_title(tree, title) ==
    IF tree.entry # "none"
    THEN [ok |-> TRUE, tree |-> [tree EXCEPT !.title = title]]
    ELSE [ok |-> FALSE, tree |-> tree]

\* PyKeePass.delete_entry(entry), or move_entry(entry, recyclebin_group)
remove_entry(tree, permanent) ==
    IF tree.entry # "none"
    THEN [ok |-> TRUE,
          tree |-> [tree EXCEPT !.entry = IF permanent THEN "none"
                                          ELSE "bin"]]
    ELSE [ok |-> FALSE, tree |-> tree]

\* PyKeePass.move_entry(entry, target_group)
codec_move_entry(tree, target_group) ==
    IF tree.entry # "none" /\ group_exists(tree, target_group)
    THEN [ok |-> TRUE, tree |-> [tree EXCEPT !.entry = target_group]]
    ELSE [ok |-> FALSE, tree |-> tree]

\* PyKeePass.add_group(destination_group=parent_group, group_name=name)
add_group(tree, parent_group, name) ==
    IF tree.group = "none"
    THEN [ok |-> TRUE,
          tree |-> [tree EXCEPT !.group = parent_group, !.gname = name]]
    ELSE [ok |-> FALSE, tree |-> tree]

\* group.name = update_data["name"]
set_group_name(tree, name) ==
    IF tree.group # "none"
    THEN [ok |-> TRUE, tree |-> [tree EXCEPT !.gname = name]]
    ELSE [ok |-> FALSE, tree |-> tree]

\* PyKeePass.delete_group(group): the group goes with the entry in it
codec_delete_group(tree) ==
    IF tree.group # "none"
    THEN [ok |-> TRUE,
          tree |-> [tree EXCEPT !.group = "none",
                                !.entry = IF @ = "g1" THEN "none" ELSE @]]
    ELSE [ok |-> FALSE, tree |-> tree]

\* PyKeePass.move_group(group, target_parent)
codec_move_group(tree, target_parent) ==
    IF tree.group # "none"
    THEN [ok |-> TRUE, tree |-> [tree EXCEPT !.group = target_parent]]
    ELSE [ok |-> FALSE, tree |-> tree]

\* a mutation primitive whose check of the lock state is missing
is_locked_or_no_database_unchecked(locked, db) == FALSE

\* the check every primitive starts with: self.is_locked or not self.database
is_locked_or_no_database(locked, db) == locked \/ ~db.loaded

\* the backup reason f"pre_save_{reason}"
pre_save_reason(reason) == "pre_save_" \o reason

\* save_database taking every save for a significant operation
backup_before_save_always(reason) == TRUE

\* the saves save_database backs the store file up for:
\* reason in ["pre_operation", "manual"]
backup_before_save(reason) == reason \in {"pre_operation", "manual"}

\* what save_database's backup attempt came to
backup_attempt(o) ==
    IF o.result = "none" THEN "none"
    ELSE IF o.result = "ok" THEN "created" ELSE "failed"

\* KeePassHandler.save_database(reason): the possible outcomes.  fault:
\* "backup" (the pre-save backup fails its verification), "save"
\* (PyKeePass.save raises, the file is left as it was or partly written)
save_database(db, locked, saved_at, file, B, M, t, reason, fault) ==
    IF locked \/ ~db.loaded
    THEN {[result |-> "DatabaseError", last_save_time |-> saved_at,
           file |-> file, backups |-> B, sidecars |-> M,
           backup_created |-> FALSE, backup |-> "none"]}
    ELSE LET attempts ==
               IF backup_before_save(reason)
               THEN create_backup(file, B, M, t, pre_save_reason(reason),
                                  TRUE, TRUE,
                                  IF fault = "backup" THEN "corrupt"
                                  ELSE "none")
               ELSE {[result |-> "none", backups |-> B, sidecars |-> M,
                      filename |-> NoName]}
             written == [exists |-> TRUE, data |-> kdbx_save(db.tree),
                         mtime |-> t + 1]
             partial == [exists |-> TRUE, data |-> Partial, mtime |-> t + 1]
         IN  UNION {IF fault = "save"
                    THEN {[result |-> "DatabaseError",
                           last_save_time |-> saved_at, file |-> f,
                           backups |-> o.backups, sidecars |-> o.sidecars,
                           backup_created |-> o.result = "ok",
                           backup |-> backup_attempt(o)]
                          : f \in {file, partial}}
                    ELSE {[result |-> "ok", last_save_time |-> t + 1,
                           file |-> written,
                           backups |-> o.backups, sidecars |-> o.sidecars,
                           backup_created |-> o.result = "ok",
                           backup |-> backup_attempt(o)]}
                    : o \in attempts}

\* the body shared by the mutation primitives: the check of the lock state,
\* the codec call (outcome is what it does to the open store), the auto-save.
\* fault "codec": the codec call raises
mutation_primitive(db, locked, saved_at, file, B, M, t, outcome, reason, auto_save, fault) ==
    LET unchanged(result) ==
            {[result |-> result, database |-> db,
              last_save_time |-> saved_at, file |-> file,
              backups |-> B, sidecars |-> M, saved |-> "", backup |-> "none"]}
    IN  IF is_locked_or_no_database(locked, db)
        THEN unchanged("DatabaseLockedError")
        ELSE IF ~db.loaded \/ fault = "codec" \/ ~outcome.ok
        THEN unchanged("DatabaseError")
        ELSE LET changed == [db EXCEPT !.tree = outcome.tree]
             IN  IF ~auto_save
                 THEN {[result |-> "ok", database |-> changed,
                        last_save_time |-> saved_at, file |-> file,
                        backups |-> B, sidecars |-> M,
                        saved |-> "", backup |-> "none"]}
                 ELSE {[result |-> s.result, database |-> changed,
                        last_save_time |-> s.last_save_time,
                        file |-> s.file, backups |-> s.backups,
                        sidecars |-> s.sidecars,
                        saved |-> reason, backup |-> s.backup]
                       : s \in save_database(changed, locked, saved_at, file,
                                             B, M, t, reason, fault)}

\* the last call: its name, what it returned or raised, the reason of the
\* save_database call it made ("" when it made none) and what that save's
\* backup attempt came to
NoStoreCall == [op |-> "none", result |-> "", saved |-> "", backup |-> "none"]

InitHandler ==
    /\ database = NoDatabase
    /\ handler_is_locked = TRUE
    /\ last_save_time = NoTime
    /\ auto_save_enabled \in BOOLEAN
    /\ db_last = NoStoreCall

(***************************************************************************)
(* Initial state: the state after construction.                            *)
(***************************************************************************)
NoCall == [op |-> "none", user |-> "", token |-> 0, result |-> "",
           pwlen |-> 0]

InitSec ==
    /\ sessions = <<>>
    /\ next_token = 1
    /\ auth_attempts = <<>>
    /\ is_locked = FALSE
    /\ last_activity = 0
    /\ sensitive_data = <<>>
    /\ sec_last = NoCall
    /\ fail_log = [u \in Users |-> <<>>]

\* the threads that call into the one handler and the one security manager
Threads == {"t1", "t2"}

\* threading.RLock(): not held
Unheld == [owner |-> "none", count |-> 0]

\* a thread that is in no handler call
NoHandlerCall == [op |-> "none", pc |-> "idle", fault |-> "none",
                  result |-> ""]

\* a thread that is in no authenticate_user call
NoLogin == [pc |-> "idle", user |-> "", pwlen |-> 0, kept |-> <<>>]

InitThreads ==
    /\ handler_lock = Unheld
    /\ handler_thread = [t \in Threads |-> NoHandlerCall]
    /\ login_thread = [t \in Threads |-> NoLogin]

\* config.access_mode
AccessModes == {"readonly", "readwrite"}

NoTool == [tool |-> "none", result |-> "", validated |-> FALSE,
           permitted |-> FALSE, store |-> FALSE]

\* KeePassMCPServer.__init__, with access_mode at its default
InitServer ==
    /\ current_session = 0
    /\ access_mode = "readonly"
    /\ tool_last = NoTool

NoSearch == [op |-> "none",
             input |-> [entries |-> <<>>, query |-> <<>>, sort_by |-> ""],
             result |-> <<>>,
             dropped |-> 0]

\* SearchEngine.__init__
InitSearch ==
    /\ search_history = <<>>
    /\ search_last = NoSearch

\* the groups of a store that holds only its root group
RootGroup == "root"

NoGroup == "none"

NoGroupCall == [op |-> "none", group |-> NoGroup, target |-> NoGroup,
                force |-> FALSE, ok |-> TRUE, error |-> "none"]

InitGroups ==
    /\ group_tree = [g \in {RootGroup} |-> [parent |-> NoGroup, name |-> "a"]]
    /\ group_last = NoGroupCall

Init ==
    /\ now = 0
    /\ InitSec
    /\ InitFiles
    /\ InitHandler
    /\ InitThreads
    /\ InitGroups
    /\ InitServer
    /\ InitSearch

\* the state after construction with auto_save left at its default
InitDefault == Init /\ auto_save_enabled = TRUE

(***************************************************************************)
(* SecurityManager operations                                              *)
(***************************************************************************)
\* history of credential failures, as the audit log of authenticate_user
\* (AUTH_FAILURE with the caller's method, AUTH_SUCCESS) would show it
log_outcome(L, user_id, result, t) ==
    IF result = "auth_failed" THEN [L EXCEPT ![user_id] = Append(@, t)]
    ELSE IF result = "ok" THEN [L EXCEPT ![user_id] = <<>>]
    ELSE L

\* time passes
Tick ==
    /\ now < MaxTime
    /\ now' = now + 1
    /\ sec_last' = NoCall
    \* failures that have left the window can never count again
    /\ fail_log' = [u \in Users |->
                      SelectSeq(fail_log[u],
                                LAMBDA f : now' - f < attempt_window)]
    /\ UNCHANGED <<sessions, next_token, auth_attempts, is_locked,
                   last_activity, sensitive_data>>

\* SecurityManager.authenticate_user(user_id, password)
AuthenticateUser(user_id, pwlen) ==
    /\ LET r == authenticate_user(auth_attempts, sessions, next_token,
                                  user_id, pwlen, now)
       IN  /\ r.result = "ok" => next_token \in Tokens
           /\ auth_attempts' = r.attempts
           /\ sessions' = r.sessions
           /\ next_token' = IF r.result = "ok" THEN next_token + 1
                            ELSE next_token
           /\ sec_last' = [op |-> "authenticate_user", user |-> user_id,
                           token |-> r.token, result |-> r.result,
                           pwlen |-> pwlen]
           /\ fail_log' = log_outcome(fail_log, user_id, r.result, now)
    /\ UNCHANGED <<now, is_locked, last_activity, sensitive_data>>

\* validate_session without its test of the lock flag
validate_session_lock_unchecked(S, locked, activity, tok, t) ==
    LET r == session_validate(S, tok, t)
    IN  [result |-> r.result, sessions |-> r.sessions,
         last_activity |-> IF r.result = "true" THEN t ELSE activity]

\* SecurityManager.validate_session: the value returned (or exception
\* raised), the registry and last_activity afterwards
validate_session(S, locked, activity, tok, t) ==
    IF locked
    THEN [result |-> "SecurityError", sessions |-> S,
          last_activity |-> activity]
    ELSE LET r == session_validate(S, tok, t)
         IN  [result |-> r.result, sessions |-> r.sessions,
              last_activity |-> IF r.result = "true" THEN t ELSE activity]

\* SecurityManager.validate_session(session_token)
ValidateSession(tok) ==
    /\ tok \in DOMAIN sessions => sessions[tok].access_count < MaxAccess
    /\ LET r == validate_session(sessions, is_locked, last_activity, tok, now)
       IN  /\ sessions' = r.sessions
           /\ last_activity' = r.last_activity
           /\ sec_last' = [NoCall EXCEPT !.op = "validate_session",
                                         !.token = tok,
                                         !.result = r.result]
    /\ UNCHANGED <<now, next_token, auth_attempts, is_locked, sensitive_data,
                   fail_log>>

\* SecurityManager.logout_user(session_token)
LogoutUser(tok) ==
    /\ sessions' = destroy_session(sessions, tok)
    /\ sec_last' = [NoCall EXCEPT !.op = "logout_user", !.token = tok,
                                  !.result = "ok"]
    /\ UNCHANGED <<now, next_token, auth_attempts, is_locked, last_activity,
                   sensitive_data, fail_log>>

\* lock_system that leaves the sessions alive
lock_system_keeps_sessions ==
    /\ is_locked' = TRUE
    /\ sensitive_data' = clear_all(sensitive_data)
    /\ sessions' = sessions

\* the state SecurityManager.lock_system leaves
lock_system_effect ==
    /\ is_locked' = TRUE
    /\ sensitive_data' = clear_all(sensitive_data)
    /\ sessions' = <<>>

\* SecurityManager.lock_system()
LockSystem ==
    /\ lock_system_effect
    /\ sec_last' = [NoCall EXCEPT !.op = "lock_system", !.result = "ok"]
    /\ UNCHANGED <<now, next_token, auth_attempts, last_activity, fail_log>>

\* SecurityManager.unlock_system(user_id, password)
UnlockSystem(user_id, pwlen) ==
    /\ IF ~is_locked
       THEN /\ sec_last' = [NoCall EXCEPT !.op = "unlock_system",
                                          !.result = "SecurityError"]
            /\ UNCHANGED <<sessions, next_token, auth_attempts, is_locked,
                           last_activity, fail_log>>
       ELSE LET r == authenticate_user(auth_attempts, sessions, next_token,
                                       user_id, pwlen, now)
            IN  /\ r.result = "ok" => next_token \in Tokens
                /\ auth_attempts' = r.attempts
                /\ sessions' = r.sessions
                /\ next_token' = IF r.result = "ok" THEN next_token + 1
                                 ELSE next_token
                /\ is_locked' = IF r.result = "ok" THEN FALSE ELSE is_locked
                /\ last_activity' = IF r.result = "ok" THEN now
                                    ELSE last_activity
                /\ sec_last' = [op |-> "unlock_system", user |-> user_id,
                                token |-> r.token, result |-> r.result,
                                pwlen |-> pwlen]
                /\ fail_log' = log_outcome(fail_log, user_id, r.result, now)
    /\ UNCHANGED <<now, sensitive_data>>

\* the test of check_auto_lock firing already at the timeout
auto_lock_due_early(locked, activity, t) ==
    ~locked /\ t - activity >= auto_lock_timeout

\* the test of check_auto_lock: not locked, and idle for more than the timeout
auto_lock_due(locked, activity, t) ==
    ~locked /\ t - activity > auto_lock_timeout

\* SecurityManager.check_auto_lock()
CheckAutoLock ==
    /\ IF auto_lock_due(is_locked, last_activity, now)
       THEN /\ lock_system_effect
            /\ sec_last' = [NoCall EXCEPT !.op = "check_auto_lock",
                                          !.result = "locked"]
       ELSE /\ sec_last' = [NoCall EXCEPT !.op = "check_auto_lock",
                                          !.result = "noop"]
            /\ UNCHANGED <<is_locked, sensitive_data, sessions>>
    /\ UNCHANGED <<now, next_token, auth_attempts, last_activity, fail_log>>

\* SecureMemory.store(key, data)
SecureStore(key, data) ==
    /\ sensitive_data' = IF key \in DOMAIN sensitive_data
                         THEN [sensitive_data EXCEPT ![key] = data]
                         ELSE sensitive_data @@ (key :> data)
    /\ sec_last' = NoCall
    /\ UNCHANGED <<now, sessions, next_token, auth_attempts, is_locked,
                   last_activity, fail_log>>

\* SecureSession.cleanup_expired_sessions: the registry afterwards
cleanup_expired_sessions(S, t) ==
    [x \in {y \in DOMAIN S : ~session_expired(S[y], t)} |-> S[x]]

\* SecurityManager.cleanup()
Cleanup ==
    /\ sensitive_data' = clear_all(sensitive_data)
    /\ sessions' = cleanup_expired_sessions(sessions, now)
    /\ sec_last' = [NoCall EXCEPT !.op = "cleanup", !.result = "ok"]
    /\ UNCHANGED <<now, next_token, auth_attempts, is_locked, last_activity,
                   fail_log>>

NextSec ==
    \/ Tick /\ UNCHANGED notSecVars
    \/ (\E l \in Logins : AuthenticateUser(l[1], l[2]))
         /\ UNCHANGED notSecVars
    \/ (\E t \in Tokens : ValidateSession(t))
         /\ UNCHANGED notSecVars
    \/ (\E t \in Tokens : LogoutUser(t))
         /\ UNCHANGED notSecVars
    \/ (LockSystem)
         /\ UNCHANGED notSecVars
    \/ (\E l \in Logins : UnlockSystem(l[1], l[2]))
         /\ UNCHANGED notSecVars
    \/ (CheckAutoLock)
         /\ UNCHANGED notSecVars
    \/ (\E k \in Keys, d \in Secrets : SecureStore(k, d))
         /\ UNCHANGED notSecVars
    \/ Cleanup /\ UNCHANGED notSecVars

SpecSec == InitDefault /\ [][NextSec]_vars

(***************************************************************************)
(* BackupManager operations                                                *)
(***************************************************************************)
BackupReasons == {"manual"}
CreateFaults == {"none", "corrupt", "meta"}
RestoreFaults == {"none", "pre_backup", "write"}
\* a name no backup has
MissingName == [second |-> 0, reason |-> "missing", gz |-> FALSE]

\* BackupManager.create_backup(reason, compress, verify)
CreateBackup(reason, compress, verify, fault) ==
    /\ now < MaxInstant
    /\ \E o \in create_backup(db_file, backups, sidecars,
                              second_stamp(now), reason,
                              compress, verify, fault) :
          /\ backups' = o.backups
          /\ sidecars' = o.sidecars
          /\ bak_last' = [op |-> "create_backup", result |-> o.result,
                          fn |-> o.filename, verify |-> verify,
                          fault |-> fault]
    /\ now' = now + 1
    /\ UNCHANGED db_file

\* BackupManager.restore_backup(backup_filename, verify_before_restore,
\* create_pre_restore_backup)
RestoreBackup(fn, verify_before_restore, create_pre_restore_backup, fault) ==
    /\ now < MaxInstant
    /\ \E o \in restore_backup(db_file, backups, sidecars,
                               first_stamp(now), fn,
                               verify_before_restore,
                               create_pre_restore_backup, fault) :
          /\ db_file' = o.db
          /\ backups' = o.backups
          /\ sidecars' = o.sidecars
          /\ bak_last' = [op |-> "restore_backup", result |-> o.result,
                          fn |-> fn, verify |-> verify_before_restore,
                          fault |-> fault]
    /\ now' = now + 1

\* BackupManager.verify_backup(backup_filename)
VerifyBackup(fn) ==
    /\ bak_last' = [NoBakCall EXCEPT !.op = "verify_backup",
                                     !.result = verify_backup(backups,
                                                              sidecars, fn),
                                     !.fn = fn]
    /\ UNCHANGED <<now, db_file, backups, sidecars>>

\* BackupManager.delete_backup(backup_filename)
DeleteBackup(fn) ==
    /\ IF fn \notin DOMAIN backups
       THEN /\ bak_last' = [NoBakCall EXCEPT !.op = "delete_backup",
                                             !.result = "BackupError",
                                             !.fn = fn]
            /\ UNCHANGED <<backups, sidecars>>
       ELSE /\ backups' = remove_all(backups, {fn})
            /\ sidecars' = remove_all(sidecars, {fn})
            /\ bak_last' = [NoBakCall EXCEPT !.op = "delete_backup",
                                             !.result = "ok", !.fn = fn]
    /\ UNCHANGED <<now, db_file>>

\* BackupManager.cleanup_old_backups()
CleanupOldBackups ==
    /\ \E D \in cleanup_choices(backups) :
          /\ backups' = remove_all(backups, D)
          /\ sidecars' = remove_all(sidecars, D)
    /\ bak_last' = [NoBakCall EXCEPT !.op = "cleanup_old_backups",
                                     !.result = "ok"]
    /\ UNCHANGED <<now, db_file>>

\* the live store file is written from outside the Backup Manager
ExternalWrite(c) ==
    /\ now < MaxInstant
    /\ db_file' = [exists |-> TRUE, data |-> c,
                    mtime |-> second_stamp(now)]
    /\ bak_last' = NoBakCall
    /\ now' = now + 1
    /\ UNCHANGED <<backups, sidecars>>

\* the live store file is lost
ExternalRemove ==
    /\ db_file.exists
    /\ db_file' = NoFile
    /\ bak_last' = NoBakCall
    /\ UNCHANGED <<now, backups, sidecars>>

\* a backup artifact is changed after it was created: "data" (the stored
\* data is overwritten), "damage" (a compressed artifact no longer
\* decompresses), "header" (the timestamp in the gzip header changes)
TamperBackup(fn, how) ==
    /\ fn \in DOMAIN backups
    /\ backups[fn].art = backups[fn].orig
    /\ \/ /\ how = "data"
          /\ backups[fn].art.data # Partial
          /\ backups' = [backups EXCEPT ![fn].art.data = Partial]
       \/ /\ how = "damage"
          /\ fn.gz
          /\ backups' = [backups EXCEPT ![fn].art.intact = FALSE]
       \/ /\ how = "header"
          /\ fn.gz
          /\ backups' = [backups EXCEPT ![fn].art.hdr = @ + 1]
    /\ bak_last' = NoBakCall
    /\ UNCHANGED <<now, db_file, sidecars>>

\* time passes
TickBak ==
    /\ now < MaxInstant
    /\ now' = now + 1
    /\ bak_last' = NoBakCall
    /\ UNCHANGED <<db_file, backups, sidecars>>

BackupNames == DOMAIN backups \cup DOMAIN sidecars \cup {MissingName}

NextBak ==
    \/ (\E r \in BackupReasons, c \in BOOLEAN, v \in BOOLEAN,
           f \in CreateFaults : CreateBackup(r, c, v, f))
         /\ UNCHANGED notFileVars
    \/ (\E fn \in BackupNames, v \in BOOLEAN, p \in BOOLEAN,
           f \in RestoreFaults : RestoreBackup(fn, v, p, f))
         /\ UNCHANGED notFileVars
    \/ (\E fn \in BackupNames : VerifyBackup(fn))
         /\ UNCHANGED notFileVars
    \/ (\E fn \in BackupNames : DeleteBackup(fn))
         /\ UNCHANGED notFileVars
    \/ CleanupOldBackups /\ UNCHANGED notFileVars
    \/ (\E c \in Contents : ExternalWrite(c))
         /\ UNCHANGED notFileVars
    \/ ExternalRemove /\ UNCHANGED notFileVars
    \/ (\E fn \in BackupNames, how \in {"data", "damage", "header"} :
           TamperBackup(fn, how))
         /\ UNCHANGED notFileVars
    \/ TickBak /\ UNCHANGED notFileVars

SpecBak == InitDefault /\ [][NextBak]_vars

(***************************************************************************)
(* Properties of the Security Manager (checked under SpecSec)              *)
(***************************************************************************)
\* a step that is a call of authenticate_user, directly or from a locked
\* unlock_system
IsAuthCall(l) ==
    \/ l.op = "authenticate_user"
    \/ l.op = "unlock_system" /\ l.result # "SecurityError"

\* C2: in every reachable state, when authenticate_user returns a token, a
\* validate_session of that token called immediately afterwards returns true.
C2_AuthThenValidate ==
    [][ ( /\ sec_last.op = "authenticate_user"
          /\ sec_last.result = "ok"
          /\ sec_last'.op = "validate_session"
          /\ sec_last'.token = sec_last.token )
        => sec_last'.result = "true" ]_vars

\* C3: whenever validate_session consults the session registry: a token that
\* is absent is reported false and nothing changes; a token whose last_access
\* is more than session_timeout old raises SessionExpiredError and is removed;
\* a validation that returns true sets last_access to now and adds exactly one
\* to access_count; and a token that has left the registry never returns.
C3_SessionExpiry ==
    [][ /\ \A t \in Tokens :
             (t < next_token /\ t \notin DOMAIN sessions)
                => t \notin DOMAIN sessions'
        /\ (sec_last'.op = "validate_session"
            /\ sec_last'.result # "SecurityError")
           => LET t == sec_last'.token IN
              /\ t \notin DOMAIN sessions
                   => sec_last'.result = "false" /\ sessions' = sessions
              /\ (t \in DOMAIN sessions
                  /\ now - sessions[t].last_access > session_timeout)
                   => /\ sec_last'.result = "SessionExpiredError"
                      /\ t \notin DOMAIN sessions'
              /\ sec_last'.result = "true"
                   => /\ t \in DOMAIN sessions
                      /\ t \in DOMAIN sessions'
                      /\ sessions'[t].last_access = now
                      /\ sessions'[t].access_count
                            = sessions[t].access_count + 1 ]_vars

\* C3 witness: a validation has raised SessionExpiredError and the token is gone
C3_Witness ==
    /\ sec_last.op = "validate_session"
    /\ sec_last.result = "SessionExpiredError"
    /\ sec_last.token \notin DOMAIN sessions

\* the calls of user_id that failed on the credential since the user's last
\* success and are less than attempt_window old
RecentFailures(user_id) ==
    Len(SelectSeq(fail_log[user_id], LAMBDA f : now - f < attempt_window))

\* C4: an authenticate_user call is rejected by the rate limiter exactly when
\* the user has max_attempts failed calls less than attempt_window old; the
\* rejected call creates no session whatever the secret, and a call that is
\* not rejected is evaluated on the secret's length.
C4_RateLimit ==
    [][ IsAuthCall(sec_last')
        => LET u == sec_last'.user IN
           /\ (sec_last'.result = "rate_limited")
                <=> (RecentFailures(u) >= max_attempts)
           /\ sec_last'.result = "rate_limited"
                => sessions' = sessions /\ next_token' = next_token
           /\ sec_last'.result # "rate_limited"
                => ((sec_last'.result = "ok")
                      <=> (sec_last'.pwlen >= MinPasswordLength)) ]_vars

\* C4 witness: a call with a secret of valid length was rejected by the limiter
C4_Witness ==
    /\ sec_last.op = "authenticate_user"
    /\ sec_last.result = "rate_limited"
    /\ sec_last.pwlen >= MinPasswordLength
    /\ Len(fail_log[sec_last.user]) >= max_attempts

\* C9: when lock_system returns the lock flag is set, Secure Memory holds no
\* key and the registry holds no session; the flag is then cleared only by an
\* unlock_system call whose authentication succeeds.
C9_LockSystem ==
    /\ [](sec_last.op = "lock_system"
            => is_locked /\ DOMAIN sensitive_data = {}
                         /\ DOMAIN sessions = {})
    /\ [][ (is_locked /\ ~is_locked')
            => sec_last'.op = "unlock_system" /\ sec_last'.result = "ok" ]_vars

\* C9 witness: lock_system has returned after sessions had been handed out
C9_Witness ==
    /\ sec_last.op = "lock_system"
    /\ is_locked
    /\ next_token > 1

\* C10: unlock_system on a system that is not locked raises SecurityError and
\* changes no state; on a locked system the flag is cleared exactly when the
\* authentication succeeds, and when it fails the error propagates, the
\* system stays locked and no session exists.
C10_UnlockSystem ==
    [][ sec_last'.op = "unlock_system"
        => /\ ~is_locked
                => /\ sec_last'.result = "SecurityError"
                   /\ UNCHANGED <<sessions, next_token, auth_attempts,
                                  is_locked, last_activity, sensitive_data>>
           /\ is_locked
                => /\ sec_last'.result \in {"ok", "auth_failed", "rate_limited"}
                   /\ ~is_locked' <=> (sec_last'.result = "ok")
                   /\ sec_last'.result # "ok"
                        => is_locked' /\ DOMAIN sessions' = {} ]_vars

\* C11: while the system is locked, validate_session raises SecurityError for
\* every token, in the registry or not, and changes neither the registry nor
\* last_activity; while it is not locked, a validate_session call changes
\* last_activity only when it returns true, and then sets it to the time of
\* the call.
C11_ValidateWhileLocked ==
    [][ sec_last'.op = "validate_session"
        => /\ is_locked
                => /\ sec_last'.result = "SecurityError"
                   /\ sessions' = sessions
                   /\ last_activity' = last_activity
           /\ ~is_locked
                => /\ sec_last'.result # "SecurityError"
                   /\ sec_last'.result = "true" => last_activity' = now
                   /\ sec_last'.result # "true"
                        => last_activity' = last_activity ]_vars

\* C11 witness: on a locked system, validate_session has refused a token that
\* is in the registry
C11_Witness ==
    /\ sec_last.op = "validate_session"
    /\ sec_last.result = "SecurityError"
    /\ is_locked
    /\ sec_last.token \in DOMAIN sessions

\* C17: check_auto_lock locks the system, as lock_system does, exactly when
\* the system is not locked and now - last_activity > auto_lock_timeout, and
\* changes nothing otherwise; and the lock flag is only ever set by a
\* lock_system or a check_auto_lock call, never by the passing of time.
C17_CheckAutoLock ==
    [][ /\ sec_last'.op = "check_auto_lock" =>
             IF ~is_locked /\ now - last_activity > auto_lock_timeout
             THEN /\ sec_last'.result = "locked"
                  /\ is_locked'
                  /\ DOMAIN sessions' = {}
                  /\ DOMAIN sensitive_data' = {}
             ELSE /\ sec_last'.result = "noop"
                  /\ UNCHANGED <<is_locked, sessions, sensitive_data,
                                 last_activity, auth_attempts, next_token>>
        /\ (~is_locked /\ is_locked')
             => sec_last'.op \in {"lock_system", "check_auto_lock"} ]_vars

\* C17 witness: check_auto_lock has locked a system that had handed out a
\* session
C17_Witness ==
    /\ sec_last.op = "check_auto_lock"
    /\ sec_last.result = "locked"
    /\ is_locked
    /\ next_token > 1
    /\ now - last_activity > auto_lock_timeout

\* C19: a successful authenticate_user leaves no recorded attempt of that
\* user and leaves the recorded attempts of every other user as they were;
\* the user's next call is therefore never rejected by the rate limiter.
C19_ResetOnSuccess ==
    [][ /\ (IsAuthCall(sec_last') /\ sec_last'.result = "ok")
             => LET u == sec_last'.user IN
                /\ u \notin DOMAIN auth_attempts'
                /\ \A v \in Users \ {u} :
                      /\ v \in DOMAIN auth_attempts'
                            <=> v \in DOMAIN auth_attempts
                      /\ v \in DOMAIN auth_attempts
                            => auth_attempts'[v] = auth_attempts[v]
        /\ ( /\ IsAuthCall(sec_last) /\ sec_last.result = "ok"
              /\ IsAuthCall(sec_last') /\ sec_last'.user = sec_last.user )
             => sec_last'.result # "rate_limited" ]_vars

\* C19 witness: a user has authenticated successfully, has no recorded
\* attempt, and another user's failed attempts are still recorded
C19_Witness ==
    /\ sec_last.op = "authenticate_user"
    /\ sec_last.result = "ok"
    /\ sec_last.user \notin DOMAIN auth_attempts
    /\ \E v \in DOMAIN auth_attempts :
          v # sec_last.user /\ Len(auth_attempts[v]) >= max_attempts

\* what logout_user does to the registry, common to both statements of C20:
\* it never raises, the token is not in the registry afterwards, a token that
\* was not there changes nothing, and every other session is as before
LogoutEffect ==
    sec_last'.op = "logout_user"
    => LET t == sec_last'.token IN
       /\ sec_last'.result = "ok"
       /\ t \notin DOMAIN sessions'
       /\ t \notin DOMAIN sessions => sessions' = sessions
       /\ DOMAIN sessions' \subseteq DOMAIN sessions
       /\ \A x \in DOMAIN sessions \ {t} :
             x \in DOMAIN sessions' /\ sessions'[x] = sessions[x]

\* a validate_session call that follows a logout_user call of the same token
ValidateAfterLogout ==
    /\ sec_last.op = "logout_user"
    /\ sec_last'.op = "validate_session"
    /\ sec_last'.token = sec_last.token

Credentials == {"good", "bad"}
StoreFaults == {"none", "codec", "backup", "save"}
\* the reasons callers give save_database
SaveReasons == {"manual", "pre_operation", "auto"}
MutationOps == {"create_entry", "update_entry", "delete_entry", "move_entry",
                "create_group", "update_group", "delete_group", "move_group"}

\* unlock_database when a failed open also drops the handle it had
unlock_database_drops_handle(db, locked, saved_at, file, password, t) ==
    IF file.exists /\ file.data.bytes = "kdbx" /\ password = "good"
    THEN [result |-> "ok",
          database |-> [loaded |-> TRUE, tree |-> file.data.tree],
          is_locked |-> FALSE, last_save_time |-> t]
    ELSE [result |-> "DatabaseError", database |-> NoDatabase,
          is_locked |-> TRUE, last_save_time |-> NoTime]

\* KeePassHandler.unlock_database(password): what it returns or raises and
\* the handle, the lock flag and last_save_time it leaves.  The file is
\* opened first; the three fields are assigned only after the open succeeded
unlock_database(db, locked, saved_at, file, password, t) ==
    LET raised(error) == [result |-> error, database |-> db,
                          is_locked |-> locked, last_save_time |-> saved_at]
    IN  IF ~file.exists THEN raised("DatabaseError")
        ELSE IF file.data.bytes # "kdbx" THEN raised("DatabaseCorruptedError")
        ELSE IF password # "good" THEN raised("AuthenticationError")
        ELSE [result |-> "ok",
              database |-> [loaded |-> TRUE, tree |-> file.data.tree],
              is_locked |-> FALSE, last_save_time |-> t]

\* KeePassHandler.unlock_database(password, key_file)
UnlockDatabase(password) ==
    /\ LET r == unlock_database(database, handler_is_locked, last_save_time,
                                db_file, password, second_stamp(now))
       IN  /\ database' = r.database
           /\ handler_is_locked' = r.is_locked
           /\ last_save_time' = r.last_save_time
           /\ db_last' = [NoStoreCall EXCEPT !.op = "unlock_database",
                                              !.result = r.result]
    /\ UNCHANGED <<now, secVars, fileVars, auto_save_enabled, extVars>>

\* KeePassHandler.lock_database()
LockDatabase(fault) ==
    /\ IF database.loaded /\ ~handler_is_locked
       THEN /\ now < MaxInstant
            /\ \E s \in save_database(database, handler_is_locked,
                                      last_save_time, db_file, backups,
                                      sidecars, first_stamp(now),
                                      "lock_operation", fault) :
                  /\ db_file' = s.file
                  /\ backups' = s.backups
                  /\ sidecars' = s.sidecars
                  /\ last_save_time' = s.last_save_time
                  /\ IF s.result = "ok"
                     THEN /\ database' = NoDatabase
                          /\ handler_is_locked' = TRUE
                     ELSE UNCHANGED <<database, handler_is_locked>>
                  /\ db_last' = [op |-> "lock_database", result |-> s.result,
                                 saved |-> "lock_operation",
                                 backup |-> s.backup]
            /\ now' = now + 1
       ELSE /\ database' = NoDatabase
            /\ handler_is_locked' = TRUE
            /\ db_last' = [NoStoreCall EXCEPT !.op = "lock_database",
                                              !.result = "ok"]
            /\ UNCHANGED <<now, db_file, backups, sidecars, last_save_time>>
    /\ UNCHANGED <<secVars, bak_last, auto_save_enabled, extVars>>

\* KeePassHandler.save_database(reason)
SaveDatabase(reason, fault) ==
    /\ now < MaxInstant
    /\ \E s \in save_database(database, handler_is_locked, last_save_time,
                              db_file, backups, sidecars,
                              first_stamp(now), reason, fault) :
          /\ db_file' = s.file
          /\ backups' = s.backups
          /\ sidecars' = s.sidecars
          /\ last_save_time' = s.last_save_time
          /\ db_last' = [op |-> "save_database", result |-> s.result,
                          saved |-> reason, backup |-> s.backup]
    /\ now' = now + 1
    /\ UNCHANGED <<secVars, bak_last, database, handler_is_locked,
                   auto_save_enabled, extVars>>

\* a mutation primitive called on the handler: op names it, outcome is what
\* its codec call does to the open store, reason the reason of its auto-save
Mutation(op, outcome, reason, fault) ==
    /\ handler_is_locked \/ now < MaxInstant
    /\ \E r \in mutation_primitive(database, handler_is_locked,
                                   last_save_time, db_file, backups, sidecars,
                                   first_stamp(now), outcome, reason,
                                   auto_save_enabled, fault) :
          /\ database' = r.database
          /\ last_save_time' = r.last_save_time
          /\ db_file' = r.file
          /\ backups' = r.backups
          /\ sidecars' = r.sidecars
          /\ db_last' = [op |-> op, result |-> r.result,
                          saved |-> r.saved, backup |-> r.backup]
          /\ now' = IF r.result = "DatabaseLockedError" THEN now ELSE now + 1
    /\ UNCHANGED <<secVars, bak_last, handler_is_locked, auto_save_enabled,
                   extVars>>

\* KeePassHandler.create_entry(group, entry_data)
CreateEntry(group, fault) ==
    Mutation("create_entry", add_entry(database.tree, group),
             "auto_save_after_create", fault)

\* KeePassHandler.update_entry(entry, update_data)
UpdateEntry(title, fault) ==
    Mutation("update_entry", set_entry_title(database.tree, title),
             "auto_save_after_update", fault)

\* KeePassHandler.delete_entry(entry, permanent)
DeleteEntry(permanent, fault) ==
    Mutation("delete_entry", remove_entry(database.tree, permanent),
             "auto_save_after_delete", fault)

\* KeePassHandler.move_entry(entry, target_group)
MoveEntry(target_group, fault) ==
    Mutation("move_entry", codec_move_entry(database.tree, target_group),
             "auto_save_after_move", fault)

\* KeePassHandler.create_group(parent_group, group_data)
CreateGroup(parent_group, name, fault) ==
    Mutation("create_group", add_group(database.tree, parent_group, name),
             "auto_save_after_group_create", fault)

\* KeePassHandler.update_group(group, update_data)
UpdateGroup(name, fault) ==
    Mutation("update_group", set_group_name(database.tree, name),
             "auto_save_after_group_update", fault)

\* KeePassHandler.delete_group(group, force)
DeleteGroup(fault) ==
    Mutation("delete_group", codec_delete_group(database.tree),
             "auto_save_after_group_delete", fault)

\* KeePassHandler.move_group(group, target_parent)
MoveGroup(target_parent, fault) ==
    Mutation("move_group", codec_move_group(database.tree, target_parent),
             "auto_save_after_group_move", fault)

NextStore ==
    \/ \E p \in Credentials : UnlockDatabase(p)
    \/ \E f \in StoreFaults : LockDatabase(f)
    \/ \E r \in SaveReasons, f \in StoreFaults : SaveDatabase(r, f)
    \/ \E g \in EntryGroups, f \in StoreFaults : CreateEntry(g, f)
    \/ \E t \in Titles, f \in StoreFaults : UpdateEntry(t, f)
    \/ \E p \in BOOLEAN, f \in StoreFaults : DeleteEntry(p, f)
    \/ \E g \in EntryGroups, f \in StoreFaults : MoveEntry(g, f)
    \/ \E g \in ParentGroups, n \in Titles, f \in StoreFaults :
          CreateGroup(g, n, f)
    \/ \E n \in Titles, f \in StoreFaults : UpdateGroup(n, f)
    \/ \E f \in StoreFaults : DeleteGroup(f)
    \/ \E g \in ParentGroups, f \in StoreFaults : MoveGroup(g, f)

SpecStore == Init /\ [][NextStore]_vars

\* the state after construction when config.keepass_db_path may name a file
\* that does not exist: the constructor only stores the path
InitAnyPath ==
    /\ now = 0
    /\ InitSec
    /\ db_file \in {[exists |-> TRUE, data |-> kdbx_save(EmptyTree), mtime |-> 0],
                    NoFile}
    /\ backups = <<>>
    /\ sidecars = <<>>
    /\ bak_last = NoBakCall
    /\ InitHandler
    /\ InitThreads
    /\ InitGroups
    /\ InitServer
    /\ InitSearch

SpecStorePaths == InitAnyPath /\ [][NextStore]_vars

(***************************************************************************)
(* The Security Manager and the Store Handler side by side, as             *)
(* KeePassMCPServer.__init__ constructs them: the handler is given the     *)
(* security manager, the security manager holds no reference to the        *)
(* handler.                                                                *)
(***************************************************************************)
NextVault ==
    \/ Tick /\ UNCHANGED notSecVars
    \/ (CheckAutoLock)
         /\ UNCHANGED notSecVars
    \/ (\E l \in Logins : UnlockSystem(l[1], l[2]))
         /\ UNCHANGED notSecVars
    \/ \E p \in Credentials : UnlockDatabase(p)
    \/ \E f \in StoreFaults : LockDatabase(f)
    \/ \E g \in EntryGroups, f \in StoreFaults : CreateEntry(g, f)

SpecVault == InitDefault /\ [][NextVault]_vars

(***************************************************************************)
(* Claims about the two together (SpecVault)                               *)
(***************************************************************************)
\* C18: whenever check_auto_lock locks the system, the Store Handler is
\* Locked and its handle is discarded afterwards.
C18_AutoLockLocksStore ==
    [][ (~is_locked /\ is_locked' /\ sec_last'.op = "check_auto_lock")
        => handler_is_locked' /\ ~database'.loaded ]_vars

(***************************************************************************)
(* Claims about the Store Handler (SpecStore)                              *)
(***************************************************************************)
\* C1: a mutation primitive (create/update/delete/move of an entry or a
\* group) called while the store is Locked raises DatabaseLockedError and
\* changes nothing: the in-memory store, the store file, the backups and
\* their sidecars, the lock state and last_save_time are as before the call.
C1_MutationWhileLocked ==
    [][ (db_last'.op \in MutationOps /\ handler_is_locked) =>
          /\ db_last'.result = "DatabaseLockedError"
          /\ database' = database
          /\ db_file' = db_file
          /\ backups' = backups
          /\ sidecars' = sidecars
          /\ handler_is_locked' = handler_is_locked
          /\ last_save_time' = last_save_time
      ]_vars

\* a mutation primitive was refused on a store that had been unlocked,
\* changed and locked again
C1_Witness ==
    /\ db_last.op \in MutationOps
    /\ db_last.result = "DatabaseLockedError"
    /\ handler_is_locked
    /\ last_save_time # NoTime
    /\ db_file.data # kdbx_save(EmptyTree)

\* the store is not Unlocked
NotUnlocked == is_locked_or_no_database(handler_is_locked, database)

\* the store file holds exactly the open store
InSync == db_file.exists /\ db_file.data = kdbx_save(database.tree)

\* C12: save_database called while the store is not Unlocked raises
\* DatabaseLockedError, creates no backup, writes nothing to the store file
\* and leaves last_save_time unchanged.
C12_SaveWhileLocked ==
    [][ (db_last'.op = "save_database" /\ NotUnlocked) =>
          /\ db_last'.result = "DatabaseLockedError"
          /\ backups' = backups
          /\ sidecars' = sidecars
          /\ db_file' = db_file
          /\ last_save_time' = last_save_time
      ]_vars

\* C13: save_database on an Unlocked store with reason manual or
\* pre_operation attempts a backup, and a backup it creates holds the store
\* file as it was before the save; when the attempt fails the save still
\* writes the open store to the file, sets last_save_time and returns success
\* (with no backup created); with any other reason no backup is attempted and
\* the backup directory is left as it was.
C13_SaveBackupPolicy ==
    [][ (db_last'.op = "save_database" /\ ~NotUnlocked) =>
          LET reason == db_last'.saved
              t == first_stamp(now)
          IN  /\ reason \in {"manual", "pre_operation"} =>
                   /\ db_last'.backup \in {"created", "failed"}
                   /\ db_last'.backup = "created" =>
                        \E fn \in DOMAIN backups' :
                           /\ fn.reason = pre_save_reason(reason)
                           /\ backups'[fn].born = t
                           /\ backups'[fn].art.data = db_file.data
                   /\ db_last'.backup = "failed" =>
                        /\ db_last'.result = "ok"
                        /\ db_file'.exists
                        /\ db_file'.data = kdbx_save(database.tree)
                        /\ last_save_time' = db_file'.mtime
                        /\ last_save_time' > t
              /\ reason \notin {"manual", "pre_operation"} =>
                   /\ db_last'.backup = "none"
                   /\ backups' = backups
                   /\ sidecars' = sidecars
      ]_vars

\* C13 witness: a manual save whose backup attempt failed has written a
\* changed store to the file
C13_Witness ==
    /\ db_last.op = "save_database"
    /\ db_last.saved = "manual"
    /\ db_last.backup = "failed"
    /\ db_last.result = "ok"
    /\ database.tree # EmptyTree
    /\ InSync
    /\ last_save_time = db_file.mtime

\* C14: after lock_database on an Unlocked store, which attempts a save
\* first, the store is Locked and the handle is discarded whether or not the
\* save succeeded; lock_database on a Locked store succeeds without saving.
C14_LockDatabase ==
    [][ db_last'.op = "lock_database" =>
          /\ handler_is_locked'
          /\ ~database'.loaded
          /\ ~NotUnlocked => db_last'.saved = "lock_operation"
          /\ NotUnlocked =>
               /\ db_last'.result = "ok"
               /\ db_last'.saved = ""
               /\ db_file' = db_file
               /\ last_save_time' = last_save_time
      ]_vars

\* the reasons of the auto-saves of the mutation primitives
AutoSaveReasons ==
    {"auto_save_after_create", "auto_save_after_update",
     "auto_save_after_delete", "auto_save_after_move",
     "auto_save_after_group_create", "auto_save_after_group_update",
     "auto_save_after_group_delete", "auto_save_after_group_move"}

\* C15: with auto-save enabled, a mutation primitive that returns has saved
\* the store with reason auto_save_after_<op> and created no backup, and a
\* store file that held the open store before a mutation primitive was
\* called holds it afterwards: no mutation is in memory only.
C15_AutoSaveDurability ==
    [][ (db_last'.op \in MutationOps /\ auto_save_enabled /\ ~NotUnlocked) =>
          /\ db_last'.result = "ok" =>
               /\ db_last'.saved \in AutoSaveReasons
               /\ db_last'.backup = "none"
               /\ backups' = backups
               /\ sidecars' = sidecars
               /\ db_file'.exists
               /\ db_file'.data = kdbx_save(database'.tree)
          /\ InSync => InSync'
      ]_vars

(***************************************************************************)
(* Claims about the Backup Manager (SpecBak)                               *)
(***************************************************************************)
SameContent(a, b) == a.exists = b.exists /\ a.data = b.data

\* the stored data of the artifact differs from the data it was created
\* with, or the artifact no longer decompresses
PayloadChanged(fn) ==
    \/ backups[fn].art.data # backups[fn].orig.data
    \/ backups[fn].art.intact # backups[fn].orig.intact

\* the sidecar of the backup holds the checksum of the data the artifact was
\* created with
SidecarRecords(fn) ==
    /\ fn \in DOMAIN sidecars
    /\ sidecars[fn].checksum = Checksum(backups[fn].orig.data)

\* C5: after every restore_backup call, whatever its outcome, the live store
\* either has exactly the content it had before the call, or the call
\* succeeded and the live store has the complete content of the backup, which
\* matches the recorded checksum when the call verified against a sidecar;
\* it never holds a partially written third content.
C5_RestoreAtomic ==
    [][ bak_last'.op = "restore_backup" =>
          LET fn == bak_last'.fn
          IN  \/ SameContent(db_file', db_file)
              \/ /\ bak_last'.result = "ok"
                 /\ fn \in DOMAIN backups
                 /\ db_file'.exists
                 /\ db_file'.data = backups[fn].art.data
                 /\ (bak_last'.verify /\ fn \in DOMAIN sidecars)
                      => Checksum(db_file'.data) = sidecars[fn].checksum
      ]_vars

\* C6: restore_backup of a compressed backup that create_backup made of
\* content C, and that is as it was created, succeeds and leaves the live
\* store with content C (when no I/O failure occurs during the restore),
\* whatever the live store held before the restore.
C6_RoundTrip ==
    [][ LET fn == bak_last'.fn
        IN  ( /\ bak_last'.op = "restore_backup"
              /\ bak_last'.fault = "none"
              /\ fn \in DOMAIN backups
              /\ fn.gz
              /\ backups[fn].art = backups[fn].orig
              /\ SidecarRecords(fn) )
            => /\ bak_last'.result = "ok"
               /\ db_file'.exists
               /\ db_file'.data = backups[fn].orig.data
      ]_vars

\* C7 (as stated): if a backup artifact is changed in any way after it was
\* created, verify_backup reports it invalid and
\* restore_backup(verify_before_restore=True) raises BackupError and leaves
\* the live store unmodified.
C7_AnyChangeDetected ==
    [][ LET fn == bak_last'.fn
        IN  ( /\ fn \in DOMAIN backups
              /\ backups[fn].art # backups[fn].orig )
            => /\ bak_last'.op = "verify_backup"
                    => bak_last'.result = "invalid"
               /\ (bak_last'.op = "restore_backup" /\ bak_last'.verify)
                    => bak_last'.result = "BackupError" /\ db_file' = db_file
      ]_vars

\* C7 (amended): if the data stored in a backup artifact is changed after the
\* backup was created (other data, or a compressed artifact that no longer
\* decompresses) and the backup's sidecar holds the checksum recorded at
\* creation, verify_backup reports it invalid and
\* restore_backup(verify_before_restore=True) raises BackupError and leaves
\* the live store and the backup directory unmodified.
C7_TamperDetection ==
    [][ LET fn == bak_last'.fn
        IN  ( /\ fn \in DOMAIN backups
              /\ PayloadChanged(fn)
              /\ SidecarRecords(fn) )
            => /\ bak_last'.op = "verify_backup"
                    => bak_last'.result = "invalid"
               /\ (bak_last'.op = "restore_backup" /\ bak_last'.verify)
                    => /\ bak_last'.result = "BackupError"
                       /\ db_file' = db_file
                       /\ backups' = backups
                       /\ sidecars' = sidecars
      ]_vars

\* restore_backup(verify_before_restore=True) has just refused a compressed
\* backup whose stored data was overwritten after its creation
C7_Witness ==
    /\ bak_last.op = "restore_backup"
    /\ bak_last.verify
    /\ bak_last.result = "BackupError"
    /\ bak_last.fn \in DOMAIN backups
    /\ bak_last.fn.gz
    /\ backups[bak_last.fn].art.data # backups[bak_last.fn].orig.data
    /\ backups[bak_last.fn].art.intact
    /\ SidecarRecords(bak_last.fn)

C8_Retention ==
    [][ (bak_last'.op = "create_backup" /\ bak_last'.result = "ok") =>
          LET fn == bak_last'.fn
              created(x) == IF x = fn THEN second_stamp(now)
                            ELSE backups[x].born
              deleted == (DOMAIN backups \cup {fn}) \ DOMAIN backups'
          IN  /\ Cardinality(DOMAIN backups') <= max_backups
              /\ \A d \in deleted, k \in DOMAIN backups' :
                    created(d) <= created(k)
      ]_vars

(***************************************************************************)
(* Threads calling one KeePassHandler.  Every method body runs inside      *)
(* "with self.lock"; a step is one statement group of a method.            *)
(***************************************************************************)
\* a lock any thread can take at any time
rlock_can_acquire_always(L, t) == TRUE

\* threading.RLock: free, or already held by the calling thread
rlock_can_acquire(L, t) == L.owner \in {"none", t}

\* RLock.acquire by a thread that can take it
rlock_acquire(L, t) == [owner |-> t, count |-> L.count + 1]

\* RLock.release
rlock_release(L) ==
    IF L.count <= 1 THEN Unheld ELSE [L EXCEPT !.count = @ - 1]

HandlerOps == {"unlock_database", "create_entry", "lock_database",
               "save_database"}
ThreadFaults == {"none", "codec", "save"}

\* the calls that have not returned yet
in_flight == {u \in Threads : handler_thread[u].pc # "idle"}

\* the call returns or raises: the lock taken on entry is released
handler_return(t, result) ==
    /\ handler_thread' = [handler_thread EXCEPT ![t] = NoHandlerCall]
    /\ handler_lock' = rlock_release(handler_lock)
    /\ db_last' = [NoStoreCall EXCEPT !.op = handler_thread[t].op,
                                      !.result = result]

\* a thread calls a handler method and reaches its "with self.lock"
HandlerCall(t, op, fault) ==
    /\ handler_thread[t].pc = "idle"
    /\ now + Cardinality(in_flight) < MaxInstant
    /\ handler_thread' = [handler_thread EXCEPT
                            ![t] = [op |-> op, pc |-> "waiting",
                                    fault |-> fault, result |-> ""]]
    /\ UNCHANGED <<now, secVars, fileVars, storeVars, handler_lock,
                   login_thread, serverVars, searchVars, groupVars>>

\* "with self.lock" on entry to the method
HandlerAcquire(t) ==
    /\ handler_thread[t].pc = "waiting"
    /\ rlock_can_acquire(handler_lock, t)
    /\ handler_lock' = rlock_acquire(handler_lock, t)
    /\ handler_thread' = [handler_thread EXCEPT ![t].pc = "entered"]
    /\ UNCHANGED <<now, secVars, fileVars, storeVars, login_thread,
                   serverVars, searchVars, groupVars>>

\* the body of unlock_database
HandlerUnlock(t, password) ==
    /\ handler_thread[t].pc = "entered"
    /\ handler_thread[t].op = "unlock_database"
    /\ LET r == unlock_database(database, handler_is_locked, last_save_time,
                                db_file, password, second_stamp(now))
       IN  /\ database' = r.database
           /\ handler_is_locked' = r.is_locked
           /\ last_save_time' = r.last_save_time
           /\ handler_return(t, r.result)
    /\ UNCHANGED <<now, secVars, fileVars, auto_save_enabled, login_thread,
                   serverVars, searchVars, groupVars>>

\* create_entry: "if self.is_locked or not self.database: raise"
HandlerCheck(t) ==
    /\ handler_thread[t].pc = "entered"
    /\ handler_thread[t].op = "create_entry"
    /\ IF is_locked_or_no_database(handler_is_locked, database)
       THEN handler_return(t, "DatabaseLockedError")
       ELSE /\ handler_thread' = [handler_thread EXCEPT ![t].pc = "checked"]
            /\ UNCHANGED <<handler_lock, db_last>>
    /\ UNCHANGED <<now, secVars, fileVars, database, handler_is_locked,
                   last_save_time, auto_save_enabled, login_thread,
                   serverVars, searchVars, groupVars>>

\* create_entry: self.database.add_entry(...)
HandlerCodec(t, group) ==
    /\ handler_thread[t].pc = "checked"
    /\ LET outcome == add_entry(database.tree, group)
       IN  IF ~database.loaded \/ handler_thread[t].fault = "codec"
              \/ ~outcome.ok
           THEN /\ handler_return(t, "DatabaseError")
                /\ UNCHANGED database
           ELSE /\ database' = [database EXCEPT !.tree = outcome.tree]
                /\ IF auto_save_enabled
                   THEN /\ handler_thread' =
                              [handler_thread EXCEPT ![t].pc = "mutated"]
                        /\ UNCHANGED <<handler_lock, db_last>>
                   ELSE handler_return(t, "ok")
    /\ UNCHANGED <<now, secVars, fileVars, handler_is_locked, last_save_time,
                   auto_save_enabled, login_thread, serverVars, searchVars, groupVars>>

\* lock_database: "if self.database and not self.is_locked"
HandlerLockTest(t) ==
    /\ handler_thread[t].pc = "entered"
    /\ handler_thread[t].op = "lock_database"
    /\ handler_thread' =
          [handler_thread EXCEPT
             ![t].pc = IF database.loaded /\ ~handler_is_locked
                       THEN "mutated" ELSE "saved",
             ![t].result = "ok"]
    /\ UNCHANGED <<now, secVars, fileVars, storeVars, handler_lock,
                   login_thread, serverVars, searchVars, groupVars>>

\* the nested self.save_database(...): its "with self.lock" is taken by the
\* thread that already holds the lock
HandlerReenter(t) ==
    /\ handler_thread[t].pc = "mutated"
    /\ rlock_can_acquire(handler_lock, t)
    /\ handler_lock' = rlock_acquire(handler_lock, t)
    /\ handler_thread' = [handler_thread EXCEPT ![t].pc = "saving"]
    /\ UNCHANGED <<now, secVars, fileVars, storeVars, login_thread,
                   serverVars, searchVars, groupVars>>

\* the reason a method passes to save_database
save_reason_of(op) ==
    IF op = "create_entry" THEN "auto_save_after_create"
    ELSE IF op = "lock_database" THEN "lock_operation"
    ELSE "manual"

\* the body of save_database, called directly or nested
HandlerSave(t) ==
    /\ \/ handler_thread[t].pc = "saving"
       \/ /\ handler_thread[t].pc = "entered"
          /\ handler_thread[t].op = "save_database"
    /\ \E s \in save_database(database, handler_is_locked, last_save_time,
                              db_file, backups, sidecars, first_stamp(now),
                              save_reason_of(handler_thread[t].op),
                              handler_thread[t].fault) :
          /\ db_file' = s.file
          /\ backups' = s.backups
          /\ sidecars' = s.sidecars
          /\ last_save_time' = s.last_save_time
          /\ handler_thread' = [handler_thread EXCEPT
                                  ![t].pc = "saved", ![t].result = s.result]
    /\ handler_lock' = IF handler_thread[t].pc = "saving"
                       THEN rlock_release(handler_lock) ELSE handler_lock
    /\ now' = now + 1
    /\ UNCHANGED <<secVars, bak_last, database, handler_is_locked,
                   auto_save_enabled, db_last, login_thread, serverVars,
                   searchVars, groupVars>>

\* lock_database: "self.database = None; self.is_locked = True", skipped
\* when the save raised
HandlerDiscard(t) ==
    /\ handler_thread[t].pc = "saved"
    /\ handler_thread[t].op = "lock_database"
    /\ IF handler_thread[t].result = "ok"
       THEN /\ database' = NoDatabase
            /\ handler_is_locked' = TRUE
       ELSE UNCHANGED <<database, handler_is_locked>>
    /\ handler_return(t, handler_thread[t].result)
    /\ UNCHANGED <<now, secVars, fileVars, last_save_time, auto_save_enabled,
                   login_thread, serverVars, searchVars, groupVars>>

\* create_entry and save_database return, or raise what the save raised
HandlerReturn(t) ==
    /\ handler_thread[t].pc = "saved"
    /\ handler_thread[t].op \in {"create_entry", "save_database"}
    /\ handler_return(t, handler_thread[t].result)
    /\ UNCHANGED <<now, secVars, fileVars, database, handler_is_locked,
                   last_save_time, auto_save_enabled, login_thread,
                   serverVars, searchVars, groupVars>>

NextThreads ==
    \/ \E t \in Threads, op \in HandlerOps, fault \in ThreadFaults :
          HandlerCall(t, op, fault)
    \/ \E t \in Threads : HandlerAcquire(t)
    \/ \E t \in Threads, password \in Credentials : HandlerUnlock(t, password)
    \/ \E t \in Threads : HandlerCheck(t)
    \/ \E t \in Threads, group \in EntryGroups : HandlerCodec(t, group)
    \/ \E t \in Threads : HandlerLockTest(t)
    \/ \E t \in Threads : HandlerReenter(t)
    \/ \E t \in Threads : HandlerSave(t)
    \/ \E t \in Threads : HandlerDiscard(t)
    \/ \E t \in Threads : HandlerReturn(t)

SpecThreads == InitDefault /\ [][NextThreads]_vars

\* the thread is inside a "with self.lock" block
holds_lock(t) == handler_thread[t].pc \notin {"idle", "waiting"}

\* the thread is in a mutation primitive that has passed its check
past_check(t) ==
    /\ handler_thread[t].op = "create_entry"
    /\ handler_thread[t].pc \in {"checked", "mutated", "saving", "saved"}

\* C21: handler calls are serialized by the handler's reentrant lock: no two
\* threads are inside handler methods at once, and while a mutation
\* primitive that has passed its check has not returned (its auto-save
\* included) the store is still unlocked and the handle still open, so no
\* mutation or save runs on a discarded handle
C21_Serialized ==
    /\ \A t, u \in Threads : holds_lock(t) /\ holds_lock(u) => t = u
    /\ \A t \in Threads :
          past_check(t) => database.loaded /\ ~handler_is_locked
    /\ \A t \in Threads :
          holds_lock(t) => handler_lock.owner = t /\ handler_lock.count >= 1

\* a mutation has changed the open store and is about to auto-save while
\* another thread waits at the lock with lock_database
C21_Witness ==
    \E t, u \in Threads :
        /\ handler_thread[t].op = "create_entry"
        /\ handler_thread[t].pc = "saving"
        /\ handler_lock.count = 2
        /\ handler_thread[u].op = "lock_database"
        /\ handler_thread[u].pc = "waiting"

(***************************************************************************)
(* Threads calling SecurityManager.authenticate_user.  The method and its  *)
(* helpers take no lock: a step is one statement of the method.            *)
(***************************************************************************)
notLoginVars == <<fileVars, storeVars, handler_lock, handler_thread,
                  serverVars, searchVars, groupVars>>

\* calls of a user are explored until this many of them have failed on the
\* credential inside one window
MaxFailures == max_attempts + 1

\* the calls the threads make: they race on the attempts of one user
RacingLogins == {l \in Logins : l[1] = "alice"}

\* the calls with an acceptable password that have not got their token yet
logins_to_succeed ==
    {u \in Threads : /\ login_thread[u].pc \in {"check", "store", "record",
                                                 "verify"}
                     /\ login_thread[u].pwlen >= MinPasswordLength}

\* the call returns a token or raises AuthenticationError
login_return(t, result, token) ==
    /\ login_thread' = [login_thread EXCEPT ![t] = NoLogin]
    /\ sec_last' = [op |-> "authenticate_user", user |-> login_thread[t].user,
                    token |-> token, result |-> result,
                    pwlen |-> login_thread[t].pwlen]

\* a thread calls authenticate_user(user_id, password)
LoginCall(t, user_id, pwlen) ==
    /\ login_thread[t].pc = "idle"
    /\ Len(fail_log[user_id]) < MaxFailures
    /\ pwlen >= MinPasswordLength
          => next_token + Cardinality(logins_to_succeed) \in Tokens
    /\ login_thread' = [login_thread EXCEPT
                          ![t] = [pc |-> "check", user |-> user_id,
                                  pwlen |-> pwlen, kept |-> <<>>]]
    /\ UNCHANGED <<now, secVars, notLoginVars>>

\* _check_rate_limit: "if user_id not in self.auth_attempts: return True",
\* else the list comprehension over the list as it is now
LoginCheck(t) ==
    /\ login_thread[t].pc = "check"
    /\ LET user_id == login_thread[t].user
       IN  login_thread' =
             IF user_id \notin DOMAIN auth_attempts
             THEN [login_thread EXCEPT ![t].pc = "record"]
             ELSE [login_thread EXCEPT
                     ![t].pc = "store",
                     ![t].kept = prune_attempts(auth_attempts[user_id], now)]
    /\ UNCHANGED <<now, secVars, notLoginVars>>

\* _check_rate_limit: the filtered list is assigned to
\* self.auth_attempts[user_id] and its length compared with max_attempts;
\* the rejected call raises
LoginStore(t) ==
    /\ login_thread[t].pc = "store"
    /\ LET user_id == login_thread[t].user
           kept == login_thread[t].kept
       IN  /\ auth_attempts' =
                 IF user_id \in DOMAIN auth_attempts
                 THEN [auth_attempts EXCEPT ![user_id] = kept]
                 ELSE auth_attempts @@ (user_id :> kept)
           /\ IF Len(kept) < max_attempts
              THEN /\ login_thread' = [login_thread EXCEPT ![t].pc = "record"]
                   /\ UNCHANGED sec_last
              ELSE login_return(t, "rate_limited", 0)
    /\ UNCHANGED <<now, sessions, next_token, is_locked, last_activity,
                   sensitive_data, fail_log, notLoginVars>>

\* _record_auth_attempt
LoginRecord(t) ==
    /\ login_thread[t].pc = "record"
    /\ auth_attempts' =
          record_auth_attempt(auth_attempts, login_thread[t].user, now)
    /\ login_thread' = [login_thread EXCEPT ![t].pc = "verify"]
    /\ UNCHANGED <<now, sessions, next_token, is_locked, last_activity,
                   sensitive_data, sec_last, fail_log, notLoginVars>>

\* "if len(password) < 8: raise", else create_session
LoginVerify(t) ==
    /\ login_thread[t].pc = "verify"
    /\ LET user_id == login_thread[t].user
       IN  IF login_thread[t].pwlen < MinPasswordLength
           THEN /\ login_return(t, "auth_failed", 0)
                /\ fail_log' = log_outcome(fail_log, user_id, "auth_failed",
                                           now)
                /\ UNCHANGED <<sessions, next_token>>
           ELSE /\ next_token \in Tokens
                /\ sessions' = create_session(sessions, next_token, user_id,
                                              now)
                /\ next_token' = next_token + 1
                /\ login_thread' = [login_thread EXCEPT
                                      ![t].pc = "reset",
                                      ![t].kept = <<next_token>>]
                /\ fail_log' = log_outcome(fail_log, user_id, "ok", now)
                /\ UNCHANGED sec_last
    /\ UNCHANGED <<now, auth_attempts, is_locked, last_activity,
                   sensitive_data, notLoginVars>>

\* "if user_id in self.auth_attempts: del self.auth_attempts[user_id]"
LoginReset(t) ==
    /\ login_thread[t].pc = "reset"
    /\ auth_attempts' = reset_rate_limit(auth_attempts, login_thread[t].user)
    /\ login_return(t, "ok", login_thread[t].kept[1])
    /\ UNCHANGED <<now, sessions, next_token, is_locked, last_activity,
                   sensitive_data, fail_log, notLoginVars>>

NextLogins ==
    \/ Tick /\ UNCHANGED notSecVars
    \/ \E t \in Threads, l \in RacingLogins : LoginCall(t, l[1], l[2])
    \/ \E t \in Threads : LoginCheck(t)
    \/ \E t \in Threads : LoginStore(t)
    \/ \E t \in Threads : LoginRecord(t)
    \/ \E t \in Threads : LoginVerify(t)
    \/ \E t \in Threads : LoginReset(t)

SpecLogins == InitDefault /\ [][NextLogins]_vars

\* a step in which a successful call deletes the user's attempts
IsReset(user_id) ==
    \E t \in Threads : /\ login_thread[t].pc = "reset"
                       /\ login_thread[t].user = user_id
                       /\ login_thread'[t].pc = "idle"

\* the recorded attempts of a user that are still inside the window at t
InWindow(A, user_id, t) ==
    IF user_id \in DOMAIN A THEN Len(prune_attempts(A[user_id], t)) ELSE 0

\* C22: the rate-limit bookkeeping is atomic under concurrent calls: no more
\* than max_attempts failing calls of one user are admitted within one
\* window, and no recorded attempt that is still inside the window is lost
\* except by the reset of a successful call
C22_AtomicRateLimit ==
    /\ [](\A u \in Users : RecentFailures(u) <= max_attempts)
    /\ [][ \A u \in Users :
             ~IsReset(u)
               => InWindow(auth_attempts', u, now')
                    >= InWindow(auth_attempts, u, now') ]_vars

(***************************************************************************)
(* KeePassMCPServer: the tools, each behind the gates its body calls       *)
(***************************************************************************)
\* the user_id the server authenticates ("default" in the source)
ServerUser == "alice"

\* the passwords a client presents: whether the store opens with it, and
\* its length
ServerPasswords == {[cred |-> "good", len |-> 8], [cred |-> "bad", len |-> 8],
                    [cred |-> "good", len |-> 7]}

\* the tools modelled, one or two for every combination of gates in the
\* source: no gate (health_check), session only (get_database_info,
\* generate_password), session and write permission (create_entry,
\* save_database)
GatedTools == {"get_database_info", "generate_password", "create_entry",
               "save_database"}

\* the tools whose body starts with self._validate_session()
validates_session(tool) == tool \in GatedTools

\* the tools whose body goes on with self._check_write_permission()
checks_write_permission(tool) == tool \in {"create_entry", "save_database"}

\* a configuration that never reports read-only
is_read_only_never(mode) == FALSE

\* KeePassMCPConfig.is_read_only
is_read_only(mode) == mode = "readonly"

\* KeePassMCPServer._validate_session: what it raises ("ok" when it
\* returns), current_session, the registry and last_activity afterwards
server_validate_session(cur, S, locked, activity, t) ==
    IF cur = 0
    THEN [result |-> "AuthenticationError", current_session |-> cur,
          sessions |-> S, last_activity |-> activity]
    ELSE LET r == validate_session(S, locked, activity, cur, t)
         IN  IF r.result = "true"
             THEN [result |-> "ok", current_session |-> cur,
                   sessions |-> r.sessions, last_activity |-> r.last_activity]
             ELSE IF r.result \in {"false", "SessionExpiredError"}
             THEN [result |-> "SessionExpiredError", current_session |-> 0,
                   sessions |-> r.sessions, last_activity |-> r.last_activity]
             ELSE [result |-> r.result, current_session |-> cur,
                   sessions |-> r.sessions, last_activity |-> r.last_activity]

\* KeePassHandler.lock_database(): the possible outcomes
lock_database(db, locked, saved_at, file, B, M, t, fault) ==
    IF db.loaded /\ ~locked
    THEN {[result |-> s.result,
           database |-> IF s.result = "ok" THEN NoDatabase ELSE db,
           is_locked |-> IF s.result = "ok" THEN TRUE ELSE locked,
           last_save_time |-> s.last_save_time, file |-> s.file,
           backups |-> s.backups, sidecars |-> s.sidecars,
           saved |-> "lock_operation"]
          : s \in save_database(db, locked, saved_at, file, B, M, t,
                                "lock_operation", fault)}
    ELSE {[result |-> "ok", database |-> NoDatabase, is_locked |-> TRUE,
           last_save_time |-> saved_at, file |-> file, backups |-> B,
           sidecars |-> M, saved |-> ""]}

\* the authenticate tool: unlock_database, then authenticate_user
ToolAuthenticate(pw) ==
    /\ LET u == unlock_database(database, handler_is_locked, last_save_time,
                                db_file, pw.cred, second_stamp(now))
           a == authenticate_user(auth_attempts, sessions, next_token,
                                  ServerUser, pw.len, now)
       IN  /\ database' = u.database
           /\ handler_is_locked' = u.is_locked
           /\ last_save_time' = u.last_save_time
           /\ db_last' = [NoStoreCall EXCEPT !.op = "unlock_database",
                                              !.result = u.result]
           /\ IF u.result # "ok"
              THEN /\ tool_last' = [tool |-> "authenticate",
                                    result |-> u.result, validated |-> FALSE,
                                    permitted |-> FALSE, store |-> TRUE]
                   /\ UNCHANGED <<secVars, current_session>>
              ELSE /\ a.result = "ok" => next_token \in Tokens
                   /\ auth_attempts' = a.attempts
                   /\ sessions' = a.sessions
                   /\ next_token' = IF a.result = "ok" THEN next_token + 1
                                    ELSE next_token
                   /\ sec_last' = [op |-> "authenticate_user",
                                   user |-> ServerUser, token |-> a.token,
                                   result |-> a.result, pwlen |-> pw.len]
                   /\ fail_log' = log_outcome(fail_log, ServerUser, a.result,
                                              now)
                   /\ current_session' = IF a.result = "ok" THEN a.token
                                         ELSE current_session
                   /\ tool_last' = [tool |-> "authenticate",
                                    result |-> IF a.result = "ok" THEN "ok"
                                               ELSE "AuthenticationError",
                                    validated |-> FALSE, permitted |-> FALSE,
                                    store |-> TRUE]
                   /\ UNCHANGED <<is_locked, last_activity, sensitive_data>>
    /\ UNCHANGED <<now, fileVars, auto_save_enabled, access_mode, threadVars,
                   searchVars, groupVars>>

\* the logout tool: logout_user when there is a session, then lock_database
ToolLogout(fault) ==
    /\ database.loaded /\ ~handler_is_locked => now < MaxInstant
    /\ sessions' = IF current_session # 0
                   THEN destroy_session(sessions, current_session)
                   ELSE sessions
    /\ sec_last' = IF current_session # 0
                   THEN [NoCall EXCEPT !.op = "logout_user",
                                       !.token = current_session,
                                       !.result = "ok"]
                   ELSE sec_last
    /\ current_session' = 0
    /\ \E r \in lock_database(database, handler_is_locked, last_save_time,
                              db_file, backups, sidecars, first_stamp(now),
                              fault) :
          /\ database' = r.database
          /\ handler_is_locked' = r.is_locked
          /\ last_save_time' = r.last_save_time
          /\ db_file' = r.file
          /\ backups' = r.backups
          /\ sidecars' = r.sidecars
          /\ db_last' = [NoStoreCall EXCEPT !.op = "lock_database",
                                             !.result = r.result,
                                             !.saved = r.saved]
          /\ tool_last' = [tool |-> "logout", result |-> r.result,
                           validated |-> FALSE, permitted |-> FALSE,
                           store |-> TRUE]
          /\ now' = IF r.saved = "" THEN now ELSE now + 1
    /\ UNCHANGED <<next_token, auth_attempts, is_locked, last_activity,
                   sensitive_data, fail_log, bak_last, auto_save_enabled,
                   access_mode, threadVars, searchVars, groupVars>>

\* the body of a gated tool once its gates are passed: what it does to the
\* store through the Store Handler
tool_body(tool, fault) ==
    IF tool = "create_entry"
    THEN mutation_primitive(database, handler_is_locked, last_save_time,
                            db_file, backups, sidecars, first_stamp(now),
                            add_entry(database.tree, "root"),
                            "auto_save_after_create", auto_save_enabled,
                            fault)
    ELSE IF tool = "save_database"
    THEN {[result |-> s.result, database |-> database,
           last_save_time |-> s.last_save_time, file |-> s.file,
           backups |-> s.backups, sidecars |-> s.sidecars,
           saved |-> "manual", backup |-> s.backup]
          : s \in save_database(database, handler_is_locked, last_save_time,
                                db_file, backups, sidecars, first_stamp(now),
                                "manual", fault)}
    ELSE {[result |-> IF is_locked_or_no_database(handler_is_locked, database)
                      THEN "DatabaseLockedError" ELSE "ok",
           database |-> database, last_save_time |-> last_save_time,
           file |-> db_file, backups |-> backups, sidecars |-> sidecars,
           saved |-> "", backup |-> "none"]}

\* a tool call that reaches the Store Handler
reaches_store(tool) == tool # "generate_password"

\* a call of a session-gated tool
ToolCall(tool, fault) ==
    /\ now < MaxInstant
    /\ (current_session \in DOMAIN sessions /\ ~is_locked)
          => sessions[current_session].access_count < MaxAccess
    /\ LET v == server_validate_session(current_session, sessions, is_locked,
                                        last_activity, now)
           stopped(result, permitted) ==
               /\ tool_last' = [tool |-> tool, result |-> result,
                                validated |-> TRUE, permitted |-> permitted,
                                store |-> FALSE]
               /\ UNCHANGED <<now, fileVars, storeVars>>
       IN  /\ sessions' = v.sessions
           /\ last_activity' = v.last_activity
           /\ current_session' = v.current_session
           /\ sec_last' = [NoCall EXCEPT !.op = "validate_session",
                                         !.token = current_session,
                                         !.result = v.result]
           /\ IF v.result # "ok"
              THEN stopped(v.result, FALSE)
              ELSE IF checks_write_permission(tool)
                      /\ is_read_only(access_mode)
              THEN stopped("READ_ONLY_MODE", FALSE)
              ELSE IF ~reaches_store(tool)
              THEN stopped("ok", TRUE)
              ELSE \E r \in tool_body(tool, fault) :
                      /\ database' = r.database
                      /\ last_save_time' = r.last_save_time
                      /\ db_file' = r.file
                      /\ backups' = r.backups
                      /\ sidecars' = r.sidecars
                      /\ db_last' = [op |-> tool, result |-> r.result,
                                     saved |-> r.saved, backup |-> r.backup]
                      /\ tool_last' = [tool |-> tool, result |-> r.result,
                                       validated |-> TRUE,
                                       permitted |-> TRUE, store |-> TRUE]
                      /\ now' = IF r.saved = "" THEN now ELSE now + 1
                      /\ UNCHANGED <<bak_last, handler_is_locked,
                                     auto_save_enabled>>
    /\ UNCHANGED <<next_token, auth_attempts, is_locked, sensitive_data,
                   fail_log, access_mode, threadVars, searchVars, groupVars>>

\* the health_check tool: no gate, KeePassHandler.health_check only reads
ToolHealthCheck ==
    /\ tool_last' = [tool |-> "health_check", result |-> "ok",
                     validated |-> FALSE, permitted |-> FALSE,
                     store |-> TRUE]
    /\ UNCHANGED <<now, secVars, fileVars, storeVars, current_session,
                   access_mode, threadVars, searchVars, groupVars>>

\* what a step outside the server leaves alone, tool_last apart (it is
\* reset: the step is no tool call)
notToolVars == <<fileVars, storeVars, threadVars, searchVars, groupVars,
                 current_session, access_mode>>

\* the server's tools, the clock, and the auto-lock poll of the Security
\* Manager; the save that logout's lock_database makes succeeds here (its
\* failure is explored with the Store Handler alone)
NextServer ==
    \/ Tick /\ tool_last' = NoTool /\ UNCHANGED notToolVars
    \/ CheckAutoLock /\ tool_last' = NoTool /\ UNCHANGED notToolVars
    \/ \E pw \in ServerPasswords : ToolAuthenticate(pw)
    \/ ToolLogout("none")
    \/ \E tool \in GatedTools, fault \in {"none", "save"} :
          ToolCall(tool, fault)
    \/ ToolHealthCheck

\* the state after construction, in either access mode
InitServerSpec ==
    /\ now = 0
    /\ InitSec
    /\ InitFiles
    /\ InitHandler
    /\ auto_save_enabled = TRUE
    /\ InitThreads
    /\ InitGroups
    /\ InitSearch
    /\ current_session = 0
    /\ tool_last = NoTool
    /\ access_mode \in AccessModes

SpecServer == InitServerSpec /\ [][NextServer]_vars

\* the tools that change the store
MutatingTools == {"create_entry", "save_database"}

\* the Security Manager would reject the server's current session
SessionInvalid ==
    \/ current_session = 0
    \/ is_locked
    \/ current_session \notin DOMAIN sessions
    \/ session_expired(sessions[current_session], now)

SessionErrors == {"AuthenticationError", "SessionExpiredError",
                  "SecurityError"}

\* the call that is this step validated the session before anything else:
\* with an invalid session it fails and neither store nor files change
ValidatedFirst ==
    /\ tool_last'.validated
    /\ SessionInvalid => /\ tool_last'.result \in SessionErrors
                         /\ ~tool_last'.store
                         /\ UNCHANGED <<storeVars, fileVars>>

\* the mutating tool that is this step checked write permission before it
\* touched the store: in read-only mode it does not reach the Store Handler
\* and, the session being valid, returns READ_ONLY_MODE
WriteChecked ==
    /\ tool_last'.store => access_mode = "readwrite" /\ ~SessionInvalid
    /\ access_mode = "readonly"
          => /\ ~tool_last'.store
             /\ UNCHANGED <<storeVars, fileVars>>
             /\ ~SessionInvalid => tool_last'.result = "READ_ONLY_MODE"

C24_FailedValidationClears ==
    [][ (tool_last'.tool \in GatedTools /\ SessionInvalid)
           => /\ tool_last'.result \in SessionErrors
              /\ current_session' = 0 ]_vars

\* C25: after SecurityManager.cleanup() returns, Secure Memory holds no key
\* and the session registry holds no session, whatever sessions existed
\* before
C25_CleanupClearsAll ==
    [](sec_last.op = "cleanup"
          => DOMAIN sensitive_data = {} /\ DOMAIN sessions = {})

(***************************************************************************)
(* SearchEngine.  A str is a sequence of one-character strings.            *)
(***************************************************************************)
\* str.lower() on one character
lower_char(c) ==
    CASE c = "A" -> "a" [] c = "B" -> "b" [] c = "G" -> "g" [] c = "H" -> "h"
      [] c = "I" -> "i" [] c = "L" -> "l" [] c = "M" -> "m" [] c = "N" -> "n"
      [] c = "T" -> "t" [] c = "U" -> "u"
      [] OTHER -> c

\* str.lower()
lower(str) == [i \in 1..Len(str) |-> lower_char(str[i])]

\* str.lstrip() for the whitespace the inputs contain
RECURSIVE lstrip(_)
lstrip(str) ==
    IF str # <<>> /\ Head(str) = " " THEN lstrip(Tail(str)) ELSE str

\* str.rstrip()
RECURSIVE rstrip(_)
rstrip(str) ==
    IF str # <<>> /\ str[Len(str)] = " "
    THEN rstrip(SubSeq(str, 1, Len(str) - 1)) ELSE str

\* str.strip()
strip(str) == rstrip(lstrip(str))

\* "sub in str"
contains(sub, str) ==
    \E i \in 0..(Len(str) - Len(sub)) : SubSeq(str, i + 1, i + Len(sub)) = sub

\* str.startswith(prefix)
startswith(str, prefix) ==
    Len(prefix) <= Len(str) /\ SubSeq(str, 1, Len(prefix)) = prefix

\* sep.join(parts)
RECURSIVE join(_, _)
join(sep, parts) ==
    IF parts = <<>> THEN <<>>
    ELSE IF Len(parts) = 1 THEN parts[1]
    ELSE parts[1] \o sep \o join(sep, Tail(parts))

\* the names of the entry fields, as text
field_text(field) ==
    CASE field = "title" -> <<"t", "i", "t", "l", "e">>
      [] field = "username" -> <<"u", "s", "e", "r", "n", "a", "m", "e">>
      [] field = "url" -> <<"u", "r", "l">>

\* the default of search_duplicates' check_fields
DefaultCheckFields == <<"title", "username", "url">>

\* search_duplicates: the f"{field}:{value}" parts of an entry's signature,
\* one for every checked field whose stripped, lower-cased value is not empty
RECURSIVE signature_parts(_, _)
signature_parts(entry, check_fields) ==
    IF check_fields = <<>> THEN <<>>
    ELSE LET field == Head(check_fields)
             value == lower(strip(entry[field]))
             rest == signature_parts(entry, Tail(check_fields))
         IN  IF value # <<>>
             THEN <<field_text(field) \o <<":">> \o value>> \o rest
             ELSE rest

\* search_duplicates: "|".join(signature_parts)
signature(entry, check_fields) ==
    join(<<"|">>, signature_parts(entry, check_fields))

\* search_duplicates: the dict of groups in insertion order, from entry i on
RECURSIVE duplicate_groups_from(_, _, _)
duplicate_groups_from(entries, check_fields, i) ==
    IF i > Len(entries) THEN <<>>
    ELSE LET sig == signature(entries[i], check_fields)
             seen == \E j \in 1..(i - 1) :
                        signature(entries[j], check_fields) = sig
             rest == duplicate_groups_from(entries, check_fields, i + 1)
         IN  IF signature_parts(entries[i], check_fields) = <<>> \/ seen
             THEN rest
             ELSE <<SelectSeq(entries,
                              LAMBDA e : signature(e, check_fields) = sig)>>
                  \o rest

\* SearchEngine.search_duplicates: the groups with more than one member
search_duplicates(entries, check_fields) ==
    SelectSeq(duplicate_groups_from(entries, check_fields, 1),
              LAMBDA group : Len(group) > 1)

\* _calculate_relevance: field_weights, in hundredths
field_weight(field) ==
    CASE field = "title" -> 300
      [] field = "username" -> 200
      [] field = "url" -> 250
      [] field = "notes" -> 100
      [] field = "tags" -> 200
      [] OTHER -> 100

\* the default of search_entries' search_fields
DefaultSearchFields == <<"title", "username", "url", "notes", "tags">>

\* _calculate_relevance: the score of one field, in hundredths: the weight
\* for a match at the beginning, 0.7 of it for a match elsewhere, and 1.2
\* times that for a whole-word match
field_score(field_value, search_query, weight) ==
    IF ~contains(search_query, field_value) THEN 0
    ELSE LET base == IF startswith(field_value, search_query) THEN weight
                     ELSE (weight * 7) \div 10
         IN  IF contains(<<" ">> \o search_query \o <<" ">>,
                         <<" ">> \o field_value \o <<" ">>)
             THEN (base * 12) \div 10
             ELSE base

\* str(list) of a list of str without quote characters: "['a', 'b']"
list_str(list) ==
    <<"[">> \o join(<<",", " ">>,
                    [i \in DOMAIN list |-> <<"'">> \o list[i] \o <<"'">>])
          \o <<"]">>

\* str(entry[field]): the text itself, and for the list of tags its str()
str_of(entry, field) ==
    IF field = "tags" THEN list_str(entry[field]) ELSE entry[field]

\* _calculate_relevance: the sum over the search fields the entry has
RECURSIVE total_score(_, _, _)
total_score(entry, search_query, search_fields) ==
    IF search_fields = <<>> THEN 0
    ELSE LET field == Head(search_fields)
             rest == total_score(entry, search_query, Tail(search_fields))
         IN  IF field \notin DOMAIN entry THEN rest
             ELSE field_score(lower(str_of(entry, field)), search_query,
                              field_weight(field)) + rest

\* SearchEngine._calculate_relevance with the default flags, in hundredths
calculate_relevance(entry, query, search_fields) ==
    IF query = <<>> THEN 100
    ELSE LET total == total_score(entry, lower(query), search_fields)
         IN  IF total < 1000 THEN total ELSE 1000

\* sorted(..., reverse=True): a stable insertion of x into a list that is
\* already in non-increasing order of score
RECURSIVE insert_by_score(_, _)
insert_by_score(sorted, x) ==
    IF sorted = <<>> THEN <<x>>
    ELSE IF Head(sorted).relevance_score >= x.relevance_score
    THEN <<Head(sorted)>> \o insert_by_score(Tail(sorted), x)
    ELSE <<x>> \o sorted

\* sorted(results, key=relevance_score, reverse=True)
RECURSIVE sorted_by_score(_)
sorted_by_score(results) ==
    IF results = <<>> THEN <<>>
    ELSE insert_by_score(
             sorted_by_score(SubSeq(results, 1, Len(results) - 1)),
             results[Len(results)])

\* _sort_results that leaves the results in the order they were found
sort_results_unsorted(results, sort_by) == results

\* SearchEngine._sort_results, for the sort_by values the inputs contain
sort_results(results, sort_by) ==
    IF sort_by = "relevance" THEN sorted_by_score(results) ELSE results

\* Validators.validate_search_query: the stripped query, or the error for
\* a query that contains ";"
validate_search_query(query) ==
    [ok |-> ~contains(<<";">>, strip(query)), query |-> strip(query)]

\* the filter arguments of search_entries; None is "" for the group filter,
\* NoDate for a date, "None" for has_url and has_notes, [] for the tags
NoDate == 0
NoFilters ==
    [group_filter |-> <<>>, date_created_after |-> NoDate,
     date_created_before |-> NoDate, date_modified_after |-> NoDate,
     date_modified_before |-> NoDate, has_url |-> "None",
     has_notes |-> "None", tags |-> <<>>]
NoLimit == 0

\* entry.get(field, default)
entry_get(entry, field, default) ==
    IF field \in DOMAIN entry THEN entry[field] ELSE default

\* the set of the lower-cased tags of a list
lower_tags(tags) == {lower(tags[i]) : i \in DOMAIN tags}

\* SearchEngine._apply_filters with has_attachments and password_age_days
\* left at None
apply_filters(entry, f) ==
    LET entry_created == entry_get(entry, "date_created", NoDate)
        entry_modified == entry_get(entry, "date_modified", NoDate)
        entry_has_url == strip(entry_get(entry, "url", <<>>)) # <<>>
        entry_has_notes == strip(entry_get(entry, "notes", <<>>)) # <<>>
    IN  IF /\ f.group_filter # <<>>
           /\ ~contains(lower(f.group_filter),
                        lower(entry_get(entry, "group", <<>>)))
        THEN FALSE
        ELSE IF /\ f.date_created_after # NoDate
                /\ (entry_created = NoDate
                      \/ entry_created < f.date_created_after)
        THEN FALSE
        ELSE IF /\ f.date_created_before # NoDate
                /\ (entry_created = NoDate
                      \/ entry_created > f.date_created_before)
        THEN FALSE
        ELSE IF /\ f.date_modified_after # NoDate
                /\ (entry_modified = NoDate
                      \/ entry_modified < f.date_modified_after)
        THEN FALSE
        ELSE IF /\ f.date_modified_before # NoDate
                /\ (entry_modified = NoDate
                      \/ entry_modified > f.date_modified_before)
        THEN FALSE
        ELSE IF f.has_url # "None" /\ (f.has_url = "True") # entry_has_url
        THEN FALSE
        ELSE IF f.has_notes # "None" /\ (f.has_notes = "True") # entry_has_notes
        THEN FALSE
        ELSE IF /\ f.tags # <<>>
                /\ ~(lower_tags(f.tags)
                       \subseteq lower_tags(entry_get(entry, "tags", <<>>)))
        THEN FALSE
        ELSE TRUE

\* the score written into the caller's own entry instead of a copy of it
scored_in_place(entry, score) ==
    [appended |-> [relevance_score |-> score] @@ entry,
     left |-> [relevance_score |-> score] @@ entry]

\* entry_copy = entry.copy(); entry_copy["relevance_score"] = score: the
\* entry appended to the results and the one left in the caller's list
scored(entry, score) ==
    [appended |-> [relevance_score |-> score] @@ entry, left |-> entry]

\* the loop of search_entries over the entries: the results in the order of
\* the entries, and the caller's list as the loop leaves it
RECURSIVE search_loop(_, _, _, _)
search_loop(entries, query, search_fields, filters) ==
    IF entries = <<>> THEN [results |-> <<>>, entries |-> <<>>]
    ELSE LET entry == Head(entries)
             rest == search_loop(Tail(entries), query, search_fields, filters)
             skipped == [results |-> rest.results,
                         entries |-> <<entry>> \o rest.entries]
             score == IF query # <<>>
                      THEN calculate_relevance(entry, query, search_fields)
                      ELSE 100
             s == scored(entry, score)
         IN  IF ~apply_filters(entry, filters) THEN skipped
             ELSE IF query # <<>> /\ score <= 0 THEN skipped
             ELSE [results |-> <<s.appended>> \o rest.results,
                   entries |-> <<s.left>> \o rest.entries]

\* search_entries: the entries that match, each with its relevance_score,
\* in the order of the entries
matching_entries(entries, query, search_fields) ==
    search_loop(entries, query, search_fields, NoFilters).results

\* SearchEngine.max_history (100 in the source)
max_history == 3

\* _record_search that keeps the oldest records
record_search_keeps_oldest(history, query) ==
    LET appended == Append(history, [query |-> query])
    IN  IF Len(appended) > max_history
        THEN SubSeq(appended, 1, max_history)
        ELSE appended

\* SearchEngine._record_search: append, then keep the last max_history
record_search(history, query) ==
    LET appended == Append(history, [query |-> query])
    IN  IF Len(appended) > max_history
        THEN SubSeq(appended, Len(appended) - max_history + 1, Len(appended))
        ELSE appended

\* results[:limit] when limit is given and positive
apply_limit(results, limit) ==
    IF limit # NoLimit /\ limit > 0 /\ limit < Len(results)
    THEN SubSeq(results, 1, limit)
    ELSE results

\* SearchEngine.search_entries(entries, query, sort_by=sort_by, limit=limit,
\* and the filters): what it returns or raises, the history afterwards and
\* the caller's list of entries afterwards
search_entries_filtered(history, entries, query, sort_by, filters, limit) ==
    LET valid == IF query # <<>> THEN validate_search_query(query)
                 ELSE [ok |-> TRUE, query |-> query]
        found == search_loop(entries, valid.query, DefaultSearchFields,
                             filters)
    IN  IF ~valid.ok
        THEN [ok |-> FALSE, result |-> <<>>, history |-> history,
              entries |-> entries]
        ELSE [ok |-> TRUE,
              result |-> apply_limit(sort_results(found.results, sort_by),
                                     limit),
              history |-> record_search(history, valid.query),
              entries |-> found.entries]

\* SearchEngine.search_entries(entries, query, sort_by=sort_by): what it
\* returns or raises and the history afterwards
search_entries(history, entries, query, sort_by) ==
    LET valid == IF query # <<>> THEN validate_search_query(query)
                 ELSE [ok |-> TRUE, query |-> query]
    IN  IF ~valid.ok
        THEN [ok |-> FALSE, result |-> <<>>, history |-> history]
        ELSE [ok |-> TRUE,
              result |-> sort_results(
                             matching_entries(entries, valid.query,
                                              DefaultSearchFields), sort_by),
              history |-> record_search(history, valid.query)]

\* ---- the inputs of the search calls ----
GitHubText == <<"G", "i", "t", "H", "u", "b">>
GitHubUpperText == <<"G", "I", "T", "H", "U", "B">>
GitHubAccountText == GitHubText \o <<" ", "A", "c", "c", "o", "u", "n", "t">>
MyGithubNotesText ==
    <<"M", "y", " ", "G", "i", "t", "h", "u", "b", " ", "N", "o", "t", "e", "s">>
GitLabText == <<"G", "i", "t", "L", "a", "b">>
HubUrlText == <<"g", "i", "t", "h", "u", "b", ".", "c", "o", "m">>
UserText == <<"u", "1">>
SeparatorsText ==
    <<"a", "|", "u", "s", "e", "r", "n", "a", "m", "e", ":", "b">>

entry_of(id, title, username, url) ==
    [id |-> id, title |-> title, username |-> username, url |-> url]

\* the entries given to search_duplicates: two that are identical in the
\* checked fields (1, 2), one that differs from them in case only (3), one
\* in surrounding whitespace only (4), an unrelated one (5), two whose
\* checked fields are all empty (6, 7), and two that differ in title and
\* username (8, 9)
DuplicatePool ==
    {entry_of(1, GitHubText, UserText, HubUrlText),
     entry_of(2, GitHubText, UserText, HubUrlText),
     entry_of(3, GitHubUpperText, UserText, HubUrlText),
     entry_of(4, <<" ">> \o GitHubText, UserText, HubUrlText),
     entry_of(5, GitLabText, <<"u", "2">>, <<>>),
     entry_of(6, <<>>, <<>>, <<>>),
     entry_of(7, <<>>, <<>>, <<>>),
     entry_of(8, SeparatorsText, <<>>, <<>>),
     entry_of(9, <<"a">>, <<"b">>, <<>>)}

\* the entries given to search_entries
SearchPool ==
    {entry_of(1, GitHubAccountText, <<>>, <<>>),
     entry_of(2, MyGithubNotesText, <<>>, <<>>),
     entry_of(3, GitLabText, UserText, HubUrlText),
     entry_of(4, MyGithubNotesText, GitHubText, HubUrlText)}

\* the longest list of entries a call is given
MaxEntries == 3

\* the lists of up to MaxEntries different entries of a pool
entry_lists(pool) ==
    {list \in UNION {[1..n -> pool] : n \in 0..MaxEntries} :
        \A i, j \in DOMAIN list : i # j => list[i].id # list[j].id}

Queries == {GitHubText, <<>>, <<"g", ";">>}
SortOrders == {"relevance", "none"}

\* SearchEngine.search_duplicates(entries), applied to the list the
\* behaviour started with
SearchDuplicates ==
    /\ search_last.op = "none"
    /\ search_last' = [search_last EXCEPT
                          !.op = "search_duplicates",
                          !.result = search_duplicates(search_last.input.entries,
                                                       DefaultCheckFields)]
    /\ UNCHANGED <<now, secVars, fileVars, storeVars, threadVars, serverVars,
                   search_history, groupVars>>

\* SearchEngine.search_entries(entries, query, sort_by=sort_by)
SearchEntries(entries, query, sort_by) ==
    /\ LET r == search_entries(search_history, entries, query, sort_by)
       IN  /\ search_history' = r.history
           /\ search_last' = [op |-> IF r.ok THEN "search_entries"
                                     ELSE "search_entries_rejected",
                              input |-> [entries |-> entries,
                                         query |-> query,
                                         sort_by |-> sort_by],
                              result |-> r.result,
                              dropped |-> IF r.ok
                                          THEN Len(search_history) + 1
                                                 - Len(r.history)
                                          ELSE 0]
    /\ UNCHANGED <<now, secVars, fileVars, storeVars, threadVars, serverVars, groupVars>>

\* SearchEngine.clear_search_history()
ClearSearchHistory ==
    /\ search_history' = <<>>
    /\ search_last' = [NoSearch EXCEPT !.op = "clear_search_history"]
    /\ UNCHANGED <<now, secVars, fileVars, storeVars, threadVars, serverVars, groupVars>>

\* a search engine and a list of entries to look for duplicates in
InitDuplicates ==
    /\ now = 0
    /\ InitSec
    /\ InitFiles
    /\ InitHandler
    /\ auto_save_enabled = TRUE
    /\ InitThreads
    /\ InitGroups
    /\ InitServer
    /\ search_history = <<>>
    /\ search_last \in {[NoSearch EXCEPT !.input.entries = entries]
                         : entries \in entry_lists(DuplicatePool)}

NextDuplicates == SearchDuplicates

SpecDuplicates == InitDuplicates /\ [][NextDuplicates]_vars

\* a search engine and the arguments of one search_entries call
InitRelevance ==
    /\ now = 0
    /\ InitSec
    /\ InitFiles
    /\ InitHandler
    /\ auto_save_enabled = TRUE
    /\ InitThreads
    /\ InitGroups
    /\ InitServer
    /\ search_history = <<>>
    /\ search_last \in {[NoSearch EXCEPT !.input = [entries |-> entries,
                                                    query |-> query,
                                                    sort_by |-> sort_by]]
                         : entries \in entry_lists(SearchPool),
                           query \in Queries, sort_by \in SortOrders}

\* search_entries applied to the arguments the behaviour started with
NextRelevance ==
    /\ search_last.op = "none"
    /\ SearchEntries(search_last.input.entries, search_last.input.query,
                     search_last.input.sort_by)

SpecRelevance == InitRelevance /\ [][NextRelevance]_vars

\* the lists of entries searched while the history is followed
ShortLists == {list \in entry_lists(SearchPool) : Len(list) <= 1}

\* sequences of searches, and the history they leave
NextSearch ==
    \/ \E entries \in ShortLists, query \in Queries, sort_by \in SortOrders :
          SearchEntries(entries, query, sort_by)
    \/ ClearSearchHistory

SpecSearch == InitDefault /\ [][NextSearch]_vars

\* the case-insensitive composite of the checked fields of an entry
composite(entry) ==
    [field \in {"title", "username", "url"} |-> lower(entry[field])]

in_group(group, entry) == \E k \in DOMAIN group : group[k].id = entry.id

\* C26: search_duplicates partitions the entries by the case-insensitive
\* composite of (title, username, url) and returns exactly the classes with
\* more than one member: every group has more than one member, every entry
\* is in at most one group, and two entries are in one group exactly when
\* their composites are equal
C26_DuplicatesPartition ==
    search_last.op = "search_duplicates"
       => LET entries == search_last.input.entries
              groups == search_last.result
          IN  /\ \A g \in DOMAIN groups : Len(groups[g]) > 1
              /\ \A i \in DOMAIN entries :
                    Cardinality({g \in DOMAIN groups :
                                    in_group(groups[g], entries[i])}) <= 1
              /\ \A i, j \in DOMAIN entries :
                    i # j => ((composite(entries[i]) = composite(entries[j]))
                                <=> \E g \in DOMAIN groups :
                                       /\ in_group(groups[g], entries[i])
                                       /\ in_group(groups[g], entries[j]))

\* the entry matches the query in its title and in no other field
title_only(entry) == entry.username = <<>> /\ entry.url = <<>>

last_n(seq, n) ==
    IF Len(seq) <= n THEN seq ELSE SubSeq(seq, Len(seq) - n + 1, Len(seq))

\* C28: the history never holds more than max_history records; a recorded
\* search leaves the most recent max_history searches in call order, its own
\* record last; a rejected search leaves the history alone; and
\* clear_search_history leaves it empty
C28_BoundedHistory ==
    /\ [](Len(search_history) <= max_history)
    /\ [](search_last.op = "clear_search_history" => search_history = <<>>)
    /\ [][ /\ search_last'.op = "search_entries"
              => /\ search_history'
                      = last_n(Append(search_history,
                                      [query |-> strip(search_last'.input.query)]),
                               max_history)
                 /\ search_history'[Len(search_history')].query
                      = strip(search_last'.input.query)
           /\ search_last'.op = "search_entries_rejected"
              => search_history' = search_history ]_vars

\* a search recorded while the history was full: the oldest record was
\* discarded and the new one is last
C28_Witness ==
    /\ search_last.op = "search_entries"
    /\ search_last.dropped = 1
    /\ Len(search_history) = max_history
    /\ search_history[1].query = <<>>
    /\ search_history[max_history].query = GitHubText

\* C29: an authenticate_user call rejected by the rate limiter records no
\* attempt: the user's list is what it was less the timestamps older than
\* attempt_window, the other users' lists are untouched, and the call is
\* rejected only while the last admitted attempt is less than
\* attempt_window old, so rejected calls do not prolong the lockout
C29_RejectedNotRecorded ==
    [][ (IsAuthCall(sec_last') /\ sec_last'.result = "rate_limited")
           => LET u == sec_last'.user
              IN  /\ u \in DOMAIN auth_attempts
                  /\ DOMAIN auth_attempts' = DOMAIN auth_attempts
                  /\ auth_attempts'[u] = prune_attempts(auth_attempts[u], now)
                  /\ \A w \in DOMAIN auth_attempts \ {u} :
                        auth_attempts'[w] = auth_attempts[w]
                  /\ auth_attempts[u] # <<>>
                  /\ now - auth_attempts[u][Len(auth_attempts[u])]
                        < attempt_window ]_vars

\* a call rejected some time after the last admitted attempt, which is
\* still the last timestamp of the user's list
C29_Witness ==
    /\ sec_last.op = "authenticate_user"
    /\ sec_last.result = "rate_limited"
    /\ sec_last.user \in DOMAIN auth_attempts
    /\ Len(auth_attempts[sec_last.user]) = max_attempts
    /\ now > auth_attempts[sec_last.user][max_attempts]

UnlockErrors == {"AuthenticationError", "DatabaseCorruptedError",
                 "DatabaseError"}

\* C30: an unlock_database call that fails (AuthenticationError,
\* DatabaseCorruptedError or DatabaseError) leaves the lock flag, the handle
\* and last_save_time as they were, so from the initial state the store
\* stays locked; and the store becomes unlocked only through an
\* unlock_database call that succeeds
C30_FailedUnlock ==
    [][ /\ (db_last'.op = "unlock_database" /\ db_last'.result \in UnlockErrors)
            => /\ database' = database
               /\ handler_is_locked' = handler_is_locked
               /\ last_save_time' = last_save_time
        /\ (handler_is_locked /\ ~handler_is_locked')
            => /\ db_last'.op = "unlock_database"
               /\ db_last'.result = "ok"
               /\ database'.loaded ]_vars

\* an unlock_database call with a wrong password failed on a store that an
\* earlier call had unlocked and a primitive had changed since
C30_Witness ==
    /\ db_last.op = "unlock_database"
    /\ db_last.result = "AuthenticationError"
    /\ database.loaded
    /\ ~handler_is_locked
    /\ database.tree # db_file.data.tree

(***************************************************************************)
(* The backup directory under create_backup, delete_backup and             *)
(* cleanup_old_backups alone                                               *)
(***************************************************************************)
NextSidecars ==
    \/ (\E r \in BackupReasons, c \in BOOLEAN, v \in BOOLEAN,
           f \in CreateFaults : CreateBackup(r, c, v, f))
         /\ UNCHANGED notFileVars
    \/ (\E fn \in BackupNames : DeleteBackup(fn))
         /\ UNCHANGED notFileVars
    \/ CleanupOldBackups /\ UNCHANGED notFileVars
    \/ TickBak /\ UNCHANGED notFileVars

SpecSidecars == InitDefault /\ [][NextSidecars]_vars

\* C31: a sidecar exists exactly when its backup exists; every backup that
\* create_backup returns exists with a sidecar holding its record; and every
\* backup that a call removes loses its sidecar in the same call
C31_SidecarWithBlob ==
    /\ [](DOMAIN sidecars = DOMAIN backups)
    /\ [][ (bak_last'.op = "create_backup" /\ bak_last'.result = "ok") =>
             LET fn == bak_last'.fn
             IN  /\ fn \in DOMAIN backups'
                 /\ fn \in DOMAIN sidecars'
                 /\ sidecars'[fn].created_at = second_stamp(now)
                 /\ sidecars'[fn].checksum = Checksum(db_file.data)
        ]_vars
    /\ [][ \A fn \in DOMAIN backups \ DOMAIN backups' :
             fn \notin DOMAIN sidecars' ]_vars

(***************************************************************************)
(* search_entries as a filter: an empty query and the structural filters   *)
(***************************************************************************)
MailText == <<"M", "a", "i", "l">>
MailUpperText == <<"M", "A", "I", "L">>
MailLowerText == <<"m", "a", "i", "l">>
BankText == <<"B", "a", "n", "k">>
BankMailText == <<"b", "a", "n", "k", "/", "m", "a", "i", "l">>
GitTagText == <<"G", "i", "t">>
GitLowerText == <<"g", "i", "t">>

\* the entries given to the filtering calls: dates are days, 1 to 3; entry 2
\* has a url of white space only, entry 3 notes of white space only and no
\* tags, entry 4 no group, no dates and no tags at all
FilterPool ==
    {[id |-> 1, title |-> GitHubText, username |-> UserText,
      url |-> HubUrlText, notes |-> <<>>, group |-> BankText,
      tags |-> <<MailText, GitTagText>>,
      date_created |-> 1, date_modified |-> 1],
     [id |-> 2, title |-> GitLabText, username |-> UserText,
      url |-> <<" ">>, notes |-> <<"n">>, group |-> BankMailText,
      tags |-> <<MailLowerText>>,
      date_created |-> 2, date_modified |-> 3],
     [id |-> 3, title |-> MailText, username |-> <<>>,
      url |-> <<>>, notes |-> <<" ">>, group |-> MailText,
      tags |-> <<>>,
      date_created |-> 3, date_modified |-> 3],
     [id |-> 4, title |-> MailText, username |-> <<>>,
      url |-> HubUrlText, notes |-> <<"n">>]}

\* the filter arguments of the calls
FilterChoices ==
    {[group_filter |-> g, date_created_after |-> ca,
      date_created_before |-> cb, date_modified_after |-> m[1],
      date_modified_before |-> m[2], has_url |-> u, has_notes |-> n,
      tags |-> t] :
        g \in {<<>>, MailUpperText},
        ca \in {NoDate, 2}, cb \in {NoDate, 2},
        m \in {<<NoDate, NoDate>>, <<3, NoDate>>, <<NoDate, 1>>},
        u \in {"None", "True", "False"}, n \in {"None", "True"},
        t \in {<<>>, <<MailUpperText>>, <<MailLowerText, GitLowerText>>,
               <<<<"m", "a">>>>}}

\* the limit arguments: None, a negative one and two positive ones
Limits == {NoLimit, -1, 1, 2}

\* SearchEngine.search_entries(entries, query, sort_by=.., limit=.., and the
\* filters)
SearchEntriesFiltered(entries, query, sort_by, filters, limit) ==
    /\ LET r == search_entries_filtered(search_history, entries, query,
                                        sort_by, filters, limit)
       IN  /\ search_history' = r.history
           /\ search_last' = [op |-> IF r.ok THEN "search_entries"
                                     ELSE "search_entries_rejected",
                              input |-> [entries |-> entries,
                                         query |-> query,
                                         sort_by |-> sort_by,
                                         filters |-> filters,
                                         limit |-> limit],
                              result |-> r.result,
                              dropped |-> 0,
                              entries_after |-> r.entries]
    /\ UNCHANGED <<now, secVars, fileVars, storeVars, threadVars, serverVars, groupVars>>

\* a search engine and the arguments of one filtering call
InitFilters ==
    /\ now = 0
    /\ InitSec
    /\ InitFiles
    /\ InitHandler
    /\ auto_save_enabled = TRUE
    /\ InitThreads
    /\ InitGroups
    /\ InitServer
    /\ search_history = <<>>
    /\ search_last \in {[NoSearch EXCEPT !.input = [entries |-> entries,
                                                    query |-> <<>>,
                                                    sort_by |-> sort_by,
                                                    filters |-> filters,
                                                    limit |-> limit]]
                         : entries \in entry_lists(FilterPool),
                           sort_by \in SortOrders,
                           filters \in FilterChoices, limit \in Limits}

\* search_entries applied to the arguments the behaviour started with
NextFilters ==
    /\ search_last.op = "none"
    /\ SearchEntriesFiltered(search_last.input.entries,
                             search_last.input.query,
                             search_last.input.sort_by,
                             search_last.input.filters,
                             search_last.input.limit)

SpecFilters == InitFilters /\ [][NextFilters]_vars

\* the entry has the field and its value is v-or-later / v-or-earlier
dated_from(entry, field, v) == field \in DOMAIN entry /\ entry[field] >= v
dated_until(entry, field, v) == field \in DOMAIN entry /\ entry[field] <= v

\* the text of a field of an entry, empty when the entry has no such field
text_of(entry, field) == IF field \in DOMAIN entry THEN entry[field] ELSE <<>>

\* the text has a character that is not a space
not_blank(text) == \E i \in DOMAIN text : text[i] # " "

\* every requested tag is among the entry's tags, compared in lower case
has_all_tags(entry, tags) ==
    \A i \in DOMAIN tags :
        /\ "tags" \in DOMAIN entry
        /\ \E j \in DOMAIN entry.tags : lower(entry.tags[j]) = lower(tags[i])

\* the entry passes every structural filter that is given (the group filter
\* is a text the entry's group contains, compared in lower case)
passes(entry, f) ==
    /\ f.group_filter # <<>> =>
          contains(lower(f.group_filter), lower(text_of(entry, "group")))
    /\ f.date_created_after # NoDate =>
          dated_from(entry, "date_created", f.date_created_after)
    /\ f.date_created_before # NoDate =>
          dated_until(entry, "date_created", f.date_created_before)
    /\ f.date_modified_after # NoDate =>
          dated_from(entry, "date_modified", f.date_modified_after)
    /\ f.date_modified_before # NoDate =>
          dated_until(entry, "date_modified", f.date_modified_before)
    /\ f.has_url = "True" => not_blank(text_of(entry, "url"))
    /\ f.has_url = "False" => ~not_blank(text_of(entry, "url"))
    /\ f.has_notes = "True" => not_blank(text_of(entry, "notes"))
    /\ f.has_notes = "False" => ~not_blank(text_of(entry, "notes"))
    /\ has_all_tags(entry, f.tags)

\* the smaller of two numbers
smaller(a, b) == IF a < b THEN a ELSE b

\* C32: with an empty query search_entries returns only entries that pass
\* every structural filter, each once and each as it was given plus a
\* relevance_score of 1.0 (100 hundredths); all of them when no positive
\* limit is given and limit of them otherwise; and the caller's entries are
\* left as they were
C32_FilterMode ==
    (search_last.op = "search_entries" /\ search_last.input.query = <<>>) =>
        LET args == search_last.input
            out == search_last.result
            passing == {i \in DOMAIN args.entries :
                           passes(args.entries[i], args.filters)}
        IN  /\ \A k \in DOMAIN out :
                   \E i \in passing :
                      out[k] = [relevance_score |-> 100] @@ args.entries[i]
            /\ \A k, l \in DOMAIN out : k # l => out[k].id # out[l].id
            /\ Len(out) = IF args.limit > 0
                          THEN smaller(args.limit, Cardinality(passing))
                          ELSE Cardinality(passing)
            /\ search_last.entries_after = args.entries

\* a filtering call with a positive limit that cut the result short, over
\* entries of which one did not pass a tag filter
C32_Witness ==
    /\ search_last.op = "search_entries"
    /\ search_last.input.query = <<>>
    /\ search_last.input.filters.tags # <<>>
    /\ search_last.input.limit = 1
    /\ Len(search_last.result) = 1
    /\ Cardinality({i \in DOMAIN search_last.input.entries :
                       passes(search_last.input.entries[i],
                              search_last.input.filters)}) = 2
    /\ Len(search_last.input.entries) = 3

(***************************************************************************)
(* search_entries with a query: the relevance scores                       *)
(***************************************************************************)
GithubLowerText == <<"g", "i", "t", "h", "u", "b">>

\* the entries given to the scoring calls: a title that starts with the
\* query (1); the query inside the title and the notes, at the start of the
\* url, and as username and only tag (2); the query as every field (3); the
\* query as a word inside the notes, and tags that do not contain it (4);
\* nothing that contains it, and no tags (5)
ScoringPool ==
    {[id |-> 1, title |-> GitHubAccountText, username |-> <<>>,
      url |-> <<>>, notes |-> <<>>, tags |-> <<>>],
     [id |-> 2, title |-> MyGithubNotesText, username |-> GithubLowerText,
      url |-> HubUrlText, notes |-> <<"m", "y">> \o GithubLowerText,
      tags |-> <<GitHubText>>],
     [id |-> 3, title |-> GitHubText, username |-> GitHubText,
      url |-> GitHubText, notes |-> GitHubText, tags |-> <<GitHubText>>],
     [id |-> 4, title |-> GitLabText, username |-> UserText, url |-> <<>>,
      notes |-> <<"a", " ">> \o GithubLowerText \o <<" ", "b">>,
      tags |-> <<GitTagText, <<"h", "u", "b">>>>],
     [id |-> 5, title |-> MailText, username |-> UserText, url |-> <<>>,
      notes |-> <<>>, tags |-> <<>>]}

ScoringQueries == {GitHubText, <<"[">>}

\* a search engine and the arguments of one scoring call
InitScoring ==
    /\ now = 0
    /\ InitSec
    /\ InitFiles
    /\ InitHandler
    /\ auto_save_enabled = TRUE
    /\ InitThreads
    /\ InitGroups
    /\ InitServer
    /\ search_history = <<>>
    /\ search_last \in {[NoSearch EXCEPT !.input = [entries |-> entries,
                                                    query |-> query,
                                                    sort_by |-> sort_by]]
                         : entries \in entry_lists(ScoringPool),
                           query \in ScoringQueries, sort_by \in SortOrders}

SpecScoring == InitScoring /\ [][NextRelevance]_vars

\* the query occurs in the text as a whole word, delimited by spaces or by
\* the ends of the text
whole_word(query, text) ==
    \E i \in 1..(Len(text) - Len(query) + 1) :
        /\ SubSeq(text, i, i + Len(query) - 1) = query
        /\ (i = 1 \/ text[i - 1] = " ")
        /\ (i + Len(query) - 1 = Len(text) \/ text[i + Len(query)] = " ")

\* the value of a searched field as the claim's formula takes it, in lower
\* case as the default mode compares: the text of the field, and for the
\* tags the tags one after another
claimed_value(entry, field) ==
    lower(IF field = "tags" THEN join(<<" ">>, entry[field])
          ELSE entry[field])

\* weight(field) in hundredths
claimed_weight(field) ==
    CASE field = "title" -> 300 [] field = "url" -> 250
      [] field = "username" -> 200 [] field = "tags" -> 200
      [] field = "notes" -> 100

\* weight x (1 or 0.7) x (1.2 or 1) for a field whose value contains the
\* query, else 0; in hundredths
claimed_field(entry, field, query) ==
    LET value == claimed_value(entry, field)
        q == lower(query)
    IN  IF field \notin DOMAIN entry \/ ~contains(q, value) THEN 0
        ELSE (claimed_weight(field)
                * (IF startswith(value, q) THEN 10 ELSE 7)
                * (IF whole_word(q, value) THEN 12 ELSE 10)) \div 100

\* the sum over the five searched fields, capped at 10.0
claimed_relevance(entry, query) ==
    smaller(claimed_field(entry, "title", query)
              + claimed_field(entry, "username", query)
              + claimed_field(entry, "url", query)
              + claimed_field(entry, "notes", query)
              + claimed_field(entry, "tags", query), 1000)

\* C33: for a non-empty query in the default mode the entries returned are
\* exactly those whose relevance by the formula is not 0, each with that
\* relevance as its score, which lies in (0, 10]
C33_RelevanceFormula ==
    (search_last.op = "search_entries" /\ search_last.input.query # <<>>) =>
        LET args == search_last.input
            out == search_last.result
        IN  /\ \A k \in DOMAIN out :
                   /\ out[k].relevance_score > 0
                   /\ out[k].relevance_score <= 1000
                   /\ \E i \in DOMAIN args.entries :
                         /\ args.entries[i].id = out[k].id
                         /\ out[k].relevance_score =
                               claimed_relevance(args.entries[i], args.query)
            /\ \A i \in DOMAIN args.entries :
                   claimed_relevance(args.entries[i], args.query) > 0
                      => \E k \in DOMAIN out : out[k].id = args.entries[i].id

(***************************************************************************)
(* GroupManager: create_group, move_group and delete_group over the group  *)
(* objects of the store's database.  A group object carries .parent (None  *)
(* for the root group), .name and .subgroups.                              *)
(***************************************************************************)
GroupIds == {"root", "g1", "g2", "g3"}
GroupNames == {"a", "A", "b"}
GroupFaults == {"none", "codec", "save"}

\* group.subgroups
subgroups(tree, group) == {g \in DOMAIN tree : tree[g].parent = group}

\* GroupManager._would_create_circular_reference: the walk along .parent
\* that starts at target_parent
RECURSIVE would_create_circular_reference(_, _, _)
would_create_circular_reference_self_only(tree, group, current) == current = group
would_create_circular_reference(tree, group, current) ==
    IF current = NoGroup THEN FALSE
    ELSE IF current = group THEN TRUE
    ELSE would_create_circular_reference(tree, group, tree[current].parent)

\* GroupManager._group_exists_in_parent
group_exists_in_parent(tree, name, parent_group, exclude_group) ==
    \E g \in subgroups(tree, parent_group) :
        /\ g # exclude_group
        /\ lower_char(tree[g].name) = lower_char(name)

\* GroupManager._resolve_parent_group: no id and no name is the root group
resolve_parent_group(target) == IF target = NoGroup THEN RootGroup ELSE target

\* the database's add_group, move_group and delete_group; delete_group takes
\* the group's element out of the document, and its subgroups with it
hierarchy_add_group(tree, group, name, parent_group) ==
    [g \in DOMAIN tree \cup {group} |->
        IF g = group THEN [parent |-> parent_group, name |-> name] ELSE tree[g]]

hierarchy_move_group(tree, group, target_parent) ==
    [tree EXCEPT ![group].parent = target_parent]

RECURSIVE below(_, _, _)
below(tree, found, fuel) ==
    IF fuel = 0 THEN found
    ELSE below(tree, found \cup {g \in DOMAIN tree : tree[g].parent \in found},
               fuel - 1)

hierarchy_delete_group(tree, group) ==
    [g \in DOMAIN tree \ below(tree, {group}, Cardinality(DOMAIN tree)) |->
        tree[g]]

\* KeePassHandler.create_group, move_group and delete_group: the change to
\* the database, then the auto-save; any exception becomes a DatabaseError
\* and an auto-save that fails leaves the change in memory
handler_group_call(tree, changed, auto_save, fault) ==
    IF fault = "codec"
    THEN [tree |-> tree, ok |-> FALSE, error |-> "DatabaseError"]
    ELSE IF auto_save /\ fault = "save"
    THEN [tree |-> changed, ok |-> FALSE, error |-> "DatabaseError"]
    ELSE [tree |-> changed, ok |-> TRUE, error |-> "none"]

group_rejected(tree, error) == [tree |-> tree, ok |-> FALSE, error |-> error]

\* GroupManager.create_group
group_manager_create_group(tree, locked, mode, auto_save, group, name, parent, fault) ==
    IF is_read_only(mode) THEN group_rejected(tree, "ReadOnlyModeError")
    ELSE IF locked THEN group_rejected(tree, "DatabaseLockedError")
    ELSE IF resolve_parent_group(parent) \notin DOMAIN tree
    THEN group_rejected(tree, "GroupNotFoundError")
    ELSE IF group_exists_in_parent(tree, name, resolve_parent_group(parent),
                                   NoGroup)
    THEN group_rejected(tree, "ValidationError")
    ELSE handler_group_call(tree,
             hierarchy_add_group(tree, group, name,
                                 resolve_parent_group(parent)),
             auto_save, fault)

\* GroupManager.move_group
group_manager_move_group(tree, locked, mode, auto_save, group, target, fault) ==
    IF is_read_only(mode) THEN group_rejected(tree, "ReadOnlyModeError")
    ELSE IF locked THEN group_rejected(tree, "DatabaseLockedError")
    ELSE IF group \notin DOMAIN tree
            \/ resolve_parent_group(target) \notin DOMAIN tree
    THEN group_rejected(tree, "GroupNotFoundError")
    ELSE IF group = RootGroup THEN group_rejected(tree, "ValidationError")
    ELSE IF would_create_circular_reference(tree, group,
                                            resolve_parent_group(target))
    THEN group_rejected(tree, "ValidationError")
    ELSE IF group_exists_in_parent(tree, tree[group].name,
                                   resolve_parent_group(target), group)
    THEN group_rejected(tree, "ValidationError")
    ELSE handler_group_call(tree,
             hierarchy_move_group(tree, group, resolve_parent_group(target)),
             auto_save, fault)

\* GroupManager.delete_group of a group without entries
group_manager_delete_group(tree, locked, mode, auto_save, group, force, fault) ==
    IF is_read_only(mode) THEN group_rejected(tree, "ReadOnlyModeError")
    ELSE IF locked THEN group_rejected(tree, "DatabaseLockedError")
    ELSE IF group \notin DOMAIN tree
    THEN group_rejected(tree, "GroupNotFoundError")
    ELSE IF group = RootGroup THEN group_rejected(tree, "ValidationError")
    ELSE IF subgroups(tree, group) # {} /\ ~force
    THEN group_rejected(tree, "ValidationError")
    ELSE handler_group_call(tree, hierarchy_delete_group(tree, group),
                            auto_save, fault)

GroupCall(op, group, target, force, r) ==
    /\ group_tree' = r.tree
    /\ group_last' = [op |-> op, group |-> group, target |-> target,
                      force |-> force, ok |-> r.ok, error |-> r.error]
    /\ UNCHANGED <<now, secVars, fileVars, storeVars, threadVars, serverVars,
                   searchVars>>

\* GroupManager.create_group(name, parent_group_id=parent): the database
\* gives the new group an id no group has yet
ManagerCreateGroup(group, name, parent, fault) ==
    /\ group \notin DOMAIN group_tree
    /\ GroupCall("create_group", group, parent, FALSE,
                 group_manager_create_group(group_tree, handler_is_locked,
                     access_mode, auto_save_enabled, group, name, parent,
                     fault))

\* GroupManager.move_group(group_id=group, target_parent_id=target)
ManagerMoveGroup(group, target, fault) ==
    GroupCall("move_group", group, target, FALSE,
              group_manager_move_group(group_tree, handler_is_locked,
                  access_mode, auto_save_enabled, group, target, fault))

\* GroupManager.delete_group(group_id=group, force=force)
ManagerDeleteGroup(group, force, fault) ==
    GroupCall("delete_group", group, NoGroup, force,
              group_manager_delete_group(group_tree, handler_is_locked,
                  access_mode, auto_save_enabled, group, force, fault))

\* the store is unlocked once, then the groups are worked on
NextGroups ==
    \/ handler_is_locked /\ UnlockDatabase("good")
    \/ \E g \in GroupIds, n \in GroupNames, p \in GroupIds \cup {NoGroup},
          f \in GroupFaults : ManagerCreateGroup(g, n, p, f)
    \/ \E g \in GroupIds, p \in GroupIds \cup {NoGroup}, f \in GroupFaults :
          ManagerMoveGroup(g, p, f)
    \/ \E g \in GroupIds, force \in BOOLEAN, f \in GroupFaults :
          ManagerDeleteGroup(g, force, f)

SpecGroups == InitServerSpec /\ [][NextGroups]_vars

\* the groups that the walk along .parent reaches from a group
RECURSIVE above(_, _, _)
above(tree, group, fuel) ==
    IF fuel = 0 \/ group \notin DOMAIN tree THEN {}
    ELSE {group} \cup above(tree, tree[group].parent, fuel - 1)

is_tree(tree) ==
    /\ RootGroup \in DOMAIN tree
    /\ tree[RootGroup].parent = NoGroup
    /\ \A g \in DOMAIN tree :
          RootGroup \in above(tree, g, Cardinality(DOMAIN tree))

\* a move of the root group, or of a group under itself or under one of its
\* descendants
bad_move(tree, group, target) ==
    /\ group \in DOMAIN tree
    /\ resolve_parent_group(target) \in DOMAIN tree
    /\ \/ group = RootGroup
       \/ group \in above(tree, resolve_parent_group(target),
                          Cardinality(DOMAIN tree))

C35_LockedMeansNoSession == is_locked => DOMAIN sessions = {}

\* C40: a check_auto_lock that is polled less than auto_lock_timeout after a
\* successful authenticate_user, with no other call in between, neither sets
\* the lock flag nor destroys the session that call created.
C40_AuthIsActivity ==
    [][ /\ sec_last'.op = "check_auto_lock"
        /\ IsAuthCall(sec_last)
        /\ sec_last.result = "ok"
        /\ sec_last.token \in DOMAIN sessions
        /\ now - sessions[sec_last.token].created_at < auto_lock_timeout
        => /\ is_locked' = is_locked
           /\ sec_last.token \in DOMAIN sessions' ]_vars

\* C36: in the server, whenever the store is Unlocked, current_session is a
\* token that is present in the session registry.
C36_UnlockedMeansSession ==
    (database.loaded /\ ~handler_is_locked)
        => (current_session # 0 /\ current_session \in DOMAIN sessions)

\* C37: a restore_backup of a backup that exists and verifies when the call
\* starts, with no I/O failure during the call, leaves that backup in place
\* as it was (the retention cleanup behind the pre-restore backup does not
\* delete it), succeeds, and leaves the live store with the backup's content.
C37_RestoreKeepsBackup ==
    [][ LET fn == bak_last'.fn
        IN  ( /\ bak_last'.op = "restore_backup"
              /\ bak_last'.fault = "none"
              /\ fn \in DOMAIN backups
              /\ verify_backup(backups, sidecars, fn) = "valid" )
            => /\ fn \in DOMAIN backups'
               /\ backups'[fn] = backups[fn]
               /\ bak_last'.result = "ok"
               /\ db_file'.exists
               /\ db_file'.data = backups[fn].art.data
      ]_vars

\* C38: a mutation primitive of the Store Handler that raises leaves the
\* in-memory store as it was before the call.
C38_FailedMutationRollsBack ==
    [][ (db_last'.op \in MutationOps /\ db_last'.result # "ok")
        => database' = database ]_vars

\* C39: a call that discards the handle of an Unlocked store (the store is
\* Locked afterwards) or replaces it (a successful unlock_database) has
\* attempted a save of the store first.
C39_SaveBeforeDiscard ==
    [][ ( /\ database.loaded /\ ~handler_is_locked
          /\ \/ ~database'.loaded
             \/ handler_is_locked'
             \/ db_last'.op = "unlock_database" /\ db_last'.result = "ok" )
        => db_last'.saved # "" ]_vars

====
